---- MODULE Spec2Model ----
\* Model of the agentic cycle engine of computer/model.py (Computer.cycle,
\* process_stream, handle_tools, execute_tool_call) over the conversation
\* log of computer/conversation.py.
\*
\* Texts (message contents, deltas, argument strings) are sequences of
\* tokens, so that concatenation is sequence concatenation.  Python's None
\* and the empty string are both falsy where the code tests them; a missing
\* text is the empty sequence and a missing id or name is the string "None".
EXTENDS Integers, Sequences, FiniteSets, TLC

\* ---------------------------------------------------------------- bounds

\* Computer.max_cycles (constructor argument, default 50), kept small.
max_cycles == 2

\* Longest chunk sequence handed to process_stream on its own.
MaxStreamLen == 3

\* Most tool calls handed to handle_tools on its own.
MaxCalls == 2

\* Most replicas made of the template session.
MaxReplicas == 2

\* Longest log of a conversation used on its own, and the most system
\* messages it is constructed with.
MaxLog == 4
MaxSystem == 2

\* ------------------------------------------------------------ vocabulary

NoneV == "None"

SystemPrompt == <<"SYSTEM">>
PausedNote == <<"Your work was paused by the user. Continue if the user wants.">>
DisabledNote == <<"Tool execution is currently disabled.">>
MaxDepthMsg == <<"Maximum recursion depth reached. Stopping to prevent infinite loop.">>
AbortedMsg == <<"Agent loop aborted by user.">>

\* Prompts a caller passes: None, the empty string (both <<>>) or a text.
Prompts == {<<>>, <<"hi">>}

\* Exceptions the model call or the stream consumption can raise.
Failures == {"APITimeoutError", "APIError", "Exception"}

\* Registered tool names (Computer.tools_by_name).
ToolNames == {"shell"}

\* One tool-call fragment of a chunk (tc_delta).
Frag(i, id, name, args) == [index |-> i, id |-> id, name |-> name, arguments |-> args]

\* One chunk of a stream (chunk.choices[0].delta).
Chunk(content, tool_calls) == [content |-> content, tool_calls |-> tool_calls]

\* The streams the endpoint may answer with:
\*   a plain answer in two deltas;
\*   a text delta, then one call whose arguments arrive in two fragments;
\*   two calls whose positions first appear in descending order, the second
\*   with arguments that never complete;
\*   one chunk carrying a delta and two calls in ascending order;
\*   a lone continuation fragment (no id, no name);
\*   an empty stream.
Streams ==
    { <<Chunk(<<"a">>, <<>>), Chunk(<<"b">>, <<>>)>>,
      <<Chunk(<<"a">>, <<>>),
        Chunk(<<>>, <<Frag(0, "id0", "shell", <<"{">>)>>),
        Chunk(<<>>, <<Frag(0, NoneV, NoneV, <<"}">>)>>)>>,
      <<Chunk(<<>>, <<Frag(1, "id1", "shell", <<"{", "}">>)>>),
        Chunk(<<>>, <<Frag(0, "id0", "shell", <<"{">>)>>)>>,
      <<Chunk(<<"a">>, <<Frag(0, "id0", "shell", <<"{", "}">>),
                         Frag(1, "id1", "shell", <<"{", "}">>)>>)>>,
      <<Chunk(<<>>, <<Frag(0, NoneV, NoneV, <<"}">>)>>)>>,
      <<>> }

\* The chunks process_stream is tried on: text deltas, first and later
\* fragments for the positions 0 and 1, and a chunk carrying both a delta
\* and a first fragment.
ChunkAlphabet ==
    { Chunk(<<"a">>, <<>>),
      Chunk(<<"b">>, <<Frag(1, "id1", "shell", <<"{">>)>>),
      Chunk(<<>>, <<Frag(0, "id0", "shell", <<"{">>)>>),
      Chunk(<<>>, <<Frag(0, NoneV, NoneV, <<"}">>)>>),
      Chunk(<<>>, <<Frag(1, "id1", "shell", <<"x">>)>>),
      Chunk(<<>>, <<Frag(1, NoneV, NoneV, <<"}">>)>>) }

\* Every chunk sequence of at most MaxStreamLen chunks.
BoundedStreams == UNION {[1..k -> ChunkAlphabet] : k \in 0..MaxStreamLen}

\* What the hook returns on a text delta: True, False, or a value that is
\* falsy without being False (None).
HookReturns == {"True", "False", "None"}

\* No delta of the chunk went to the hook.
NoAnswer == "-"

\* ------------------------------------------------- conversation.py

\* Conversation.add_message: the message dict; absent keys are <<>> / "None".
Message(role, content, tool_calls, tool_call_id) ==
    [role |-> role, content |-> content, tool_calls |-> tool_calls,
     tool_call_id |-> tool_call_id]

\* Mutant: the message is put at the head of the log.
add_messageAtHead(h, role, content, tool_calls, tool_call_id) ==
    <<Message(role, content, tool_calls, tool_call_id)>> \o h

\* Conversation.add_message, lines 24-30: list.append of a new dict.
add_message(h, role, content, tool_calls, tool_call_id) ==
    Append(h, Message(role, content, tool_calls, tool_call_id))

\* Conversation.__init__ (lines 11-16) with s system messages.
Constructed(s) == [j \in 1..s |-> Message("system", SystemPrompt, <<>>, NoneV)]

\* Conversation._mask is None (conversation.py 14).
NoMask == -1

\* No mask(n) call so far.
NotMasked == [n |-> NoMask, sys |-> 0, m |-> 0, k |-> 0]

\* add_message, lines 33-34: the mask moves with every append.
Bump(mk, k) == IF mk = NoMask THEN NoMask ELSE mk + k

\* Python's seq[:c] for c >= 0.
Prefix(h, c) == SubSeq(h, 1, IF c < Len(h) THEN c ELSE Len(h))

\* Conversation.history, lines 36-40.
VisibleHistory(h, mk, ns) == IF mk # NoMask THEN Prefix(h, ns + mk) ELSE h

\* ------------------------------------------------- model.py helpers

\* Mutant: the guard lets depth = max_cycles through.
DepthExceededLate(d) == d > max_cycles

\* cycle, line 106: the depth guard.
DepthExceeded(d) == d >= max_cycles

\* Mutant: an abort is only honoured from the second recursive step on.
AbortStopsDeep(d) == d > 1

\* Mutant: an abort also stops a top-level step.
AbortStopsAlways(d) == d >= 0

\* cycle, line 114: an abort seen at this depth stops the chain.
AbortStops(d) == d > 0

\* Mutant: stop_cycling does not raise the flag.
StopValueOff == FALSE

\* stop_cycling, line 92: the value stored in abort_signal.
StopValue == TRUE

\* Mutant: the prompt is appended whatever it is.
TruthyAlways(p) == TRUE

\* cycle, line 127: `if prompt:`.
Truthy(p) == p # <<>>

\* Mutant: the final `except Exception` clause is missing.
CaughtKnown(e) == e \in {"APIConnectionError", "APITimeoutError"} \/ e = "APIError"

\* cycle, lines 156-170: the except clauses; every Exception is caught.
Caught(e) == e \in {"APIConnectionError", "APITimeoutError"}
             \/ e = "APIError" \/ e \in Failures

\* cycle, lines 158/163/168: the text handed to the hook.
ErrorMsg(e) ==
    IF e \in {"APIConnectionError", "APITimeoutError"} THEN <<"Network error", e>>
    ELSE IF e = "APIError" THEN <<"API error", e>>
    ELSE <<"Unexpected error", e>>

\* Mutant: tools_enabled is not consulted.
ToolsRunAlways(enabled) == TRUE

\* cycle, line 176: whether collected tool calls are dispatched.
ToolsRun(enabled) == enabled

\* Mutant: `is False` never holds.
IsFalseNever(r) == FALSE

\* process_stream, line 262: `... is False`.
IsFalse(r) == r = "False"

\* Mutant: the recursive call passes its own depth on.
NextDepthSame(d) == d

\* cycle, line 206: the depth passed to the recursive call.
NextDepth(d) == d + 1

\* Mutant: a turn never asks for another one.
CycleAgainNever(ftc) == FALSE

\* cycle, line 191: cycle_again.
CycleAgain(ftc) == ftc # <<>>

\* One hook invocation, as the hook sees it.
HookCall(delta, content, sd, cd, err) ==
    [delta |-> delta, content |-> content, stream_done |-> sd,
     cycle_done |-> cd, error |-> err]

\* Mutant: the terminal call does not announce the end of the chain.
TerminalErrorOpen(content) == HookCall(<<>>, content, TRUE, FALSE, TRUE)

\* cycle, lines 109, 118, 159, 164, 169: hook("", error_msg, {}, True, True,
\* True).
TerminalError(content) == HookCall(<<>>, content, TRUE, TRUE, TRUE)

\* Mutant: the hook gets the accumulated text in place of the delta.
DeltaHookFull(delta, rc) == HookCall(rc, rc, FALSE, FALSE, FALSE)

\* process_stream, line 262: the hook call for one text delta.
DeltaHook(delta, rc) == HookCall(delta, rc, FALSE, FALSE, FALSE)


\* ------------------------------------------------- process_stream

\* process_stream, line 269: `index not in full_tool_calls`.
HasIndex(ftc, i) == \E k \in 1..Len(ftc) : ftc[k].index = i

\* Mutant: an id or a name that is still missing is taken from a later
\* fragment.
AddFragmentLateId(ftc, f) ==
    LET base == IF HasIndex(ftc, f.index) THEN ftc
                ELSE Append(ftc, [index |-> f.index, id |-> f.id,
                                  name |-> f.name, arguments |-> <<>>])
    IN [k \in 1..Len(base) |->
          IF base[k].index = f.index
          THEN [base[k] EXCEPT
                   !.id = IF @ = NoneV THEN f.id ELSE @,
                   !.name = IF @ = NoneV THEN f.name ELSE @,
                   !.arguments = @ \o f.arguments]
          ELSE base[k]]

\* Mutant: a fragment's arguments replace what was accumulated.
AddFragmentOverwrite(ftc, f) ==
    LET base == IF HasIndex(ftc, f.index) THEN ftc
                ELSE Append(ftc, [index |-> f.index, id |-> f.id,
                                  name |-> f.name, arguments |-> <<>>])
    IN [k \in 1..Len(base) |->
          IF base[k].index = f.index /\ f.arguments # <<>>
          THEN [base[k] EXCEPT !.arguments = f.arguments]
          ELSE base[k]]

\* process_stream, lines 268-278: one fragment.  full_tool_calls is a dict,
\* which iterates in insertion order: a new index goes to the end.
AddFragment(ftc, f) ==
    LET base == IF HasIndex(ftc, f.index) THEN ftc
                ELSE Append(ftc, [index |-> f.index, id |-> f.id,
                                  name |-> f.name, arguments |-> <<>>])
    IN [k \in 1..Len(base) |->
          IF base[k].index = f.index /\ f.arguments # <<>>
          THEN [base[k] EXCEPT !.arguments = @ \o f.arguments]
          ELSE base[k]]

\* process_stream, lines 266-278: the fragments of one chunk, in order.
RECURSIVE AddFragments(_, _)
AddFragments(ftc, frags) ==
    IF frags = <<>> THEN ftc
    ELSE AddFragments(AddFragment(ftc, Head(frags)), Tail(frags))

\* ------------------------------------------------- tool dispatch

\* json.loads + schema validation of the argument string (utils.py 89-90):
\* only the complete object parses.
Parses(args) == args = <<"{", "}">>

\* parse_tool_call, utils.py 82: `if not tool_name`.
NoName(name) == name \in {NoneV, ""}

\* Mutant: the arguments are parsed before the name is looked up.
execute_tool_callParseFirst(call, ok) ==
    IF NoName(call.name) THEN <<"Error: Tool name not provided">>
    ELSE IF ~Parses(call.arguments) THEN <<"Error parsing tool call: ", "str(e)">>
    ELSE IF call.name \notin ToolNames
         THEN <<"Error: Tool '", call.name, "' not found">>
    ELSE IF ok THEN <<"result", call.name>>
    ELSE <<"Error executing tool: ", "str(e)">>

\* execute_tool_call (model.py 281-313) with parse_tool_call (utils.py
\* 59-97); ok says whether the executor, if reached, returns or raises.
execute_tool_call(call, ok) ==
    IF NoName(call.name) THEN <<"Error: Tool name not provided">>
    ELSE IF call.name \notin ToolNames
         THEN <<"Error: Tool '", call.name, "' not found">>
    ELSE IF ~Parses(call.arguments) THEN <<"Error parsing tool call: ", "str(e)">>
    ELSE IF ok THEN <<"result", call.name>>
    ELSE <<"Error executing tool: ", "str(e)">>

\* execute_tool_call, lines 299-308: tool.execute is reached only when
\* parse_tool_call reported no error.
ExecutorReached(call) ==
    ~NoName(call.name) /\ call.name \in ToolNames /\ Parses(call.arguments)

\* handle_assistant_msg, lines 212-221: the tool_calls list of the message.
ToolCallList(ftc) ==
    [k \in 1..Len(ftc) |->
        [id |-> ftc[k].id, name |-> ftc[k].name, arguments |-> ftc[k].arguments]]

\* Mutant: the assistant message carries the text only.
handle_assistant_msgTextOnly(h, rc, ftc) ==
    add_message(h, "assistant", rc, <<>>, NoneV)

\* handle_assistant_msg, lines 222-226.
handle_assistant_msg(h, rc, ftc) ==
    add_message(h, "assistant", rc, ToolCallList(ftc), NoneV)

\* Mutant: every tool message carries the first call's id.
IdOfFirst(ftc, idx) == 1

\* cycle, line 188: full_tool_calls[idx]["id"].
IdOf(ftc, idx) == (CHOOSE k \in 1..Len(ftc) : ftc[k].index = idx) 

\* cycle, lines 184-189: one tool message per result, in the dict's order.
ToolMessages(ftc, res) ==
    [k \in 1..Len(res) |->
        Message("tool", res[k].result, <<>>, ftc[IdOf(ftc, res[k].index)].id)]

\* ------------------------------------------------------------ state

VARIABLES
    history,          \* Conversation._history
    mask,             \* Conversation._mask
    nsys,             \* len(Conversation.system_messages)
    abort_signal,     \* Computer.abort_signal
    pc,               \* where the cycle chain is suspended
    depth,            \* depth argument of the running step
    prompt,           \* prompt argument of the running step
    tools_enabled,    \* tools_enabled argument of the chain
    stream,           \* chunks of the current stream not yet consumed
    response_content, \* process_stream accumulator
    full_tool_calls,  \* process_stream accumulator, in insertion order
    results,          \* handle_tools results, in insertion order
    hookCalls,        \* hook invocations of the chain, in order
    invocations,      \* model invocations of the chain
    dispatched,       \* tool calls handed to execute_tool_call, in order
    sent,             \* messages argument of the latest call_model
    stream0,          \* the current stream as call_model returned it
    hookAnswer,       \* what the hook answered to the latest chunk's delta
    hist0,            \* the log when the chain was started
    startDepth,       \* depth the chain was started with
    startPrompt,      \* prompt the chain was started with
    startAbort,       \* abort flag when the chain was started
    stopped,          \* stop_cycling() was called while the chain was in flight
    failure,          \* the exception the chain's model call or stream raised
    masked,           \* the latest ConvMask(n) and the ConvAppends after it
    snapshot,         \* what Conversation.serialize() returned, until the
                      \* conversation is used again
    files,            \* Config.cache_path(): the snapshot file of each tag
    saving,           \* tags with a ConversationStorage.save in flight
    loaded,           \* the latest ConversationStorage.load and its outcome
    snapshots,        \* the log of the latest completed save of each tag
    heap,             \* the Conversation objects of the sessions: their logs
    sessions,         \* the Computer objects: the template, then its replicas
    built,            \* the log the template was constructed with
    born,             \* each session's log and its template's configuration
                      \* at the time the session was made
    actor,            \* the session the latest call was made on (0: none)
    definitions,      \* the decorated functions of a tools module, in
                      \* source order
    current_platform, \* the platform the program runs on
    toolPc,           \* how far tool discovery and construction have got
    registered_tools, \* what discover_tools() returned
    tool_schemas,     \* Computer.tool_schemas
    tools_by_name,    \* Computer.tools_by_name
    message_queue,    \* ConversationContext.message_queue
    stop,             \* ConversationContext.stop
    consumer,         \* where the context's consume() task is suspended,
                      \* and the message it took last
    arrivals,         \* messages the channel has received so far
    accepted,         \* the messages message() has put on the queue, in order
    taken,            \* the messages consume() has got from the queue, in
                      \* order
    started,          \* the messages consume() has called cycle for, in order
    returned,         \* the messages whose cycle chain has ended, in order
    inflight,         \* the messages whose cycle chain is running
    protected_mode,   \* ConversationContext.protected_mode
    su_context,       \* ConversationContext.su_context
    aborted,          \* the latest abort() on the channel: "idle" when it
                      \* found the consumer waiting on an empty queue,
                      \* "stale" once the consumer has taken the next
                      \* message after such an abort, "busy" when it came
                      \* while a message was being processed, "drained"
                      \* once the consumer has emptied a queue because of
                      \* it, "no" else
    approval,         \* a call of the adapter's approval hook: where it is
                      \* suspended, its clock and what it has seen
    gated,            \* the calls of approval-gated tools so far, in order
    effects,          \* the calls that performed their side effect, in order
    cleaning          \* a call of clean_discord_message: its arguments and,
                      \* once it has returned, its result

vars == <<history, mask, nsys, abort_signal, pc, depth, prompt, tools_enabled,
          stream, response_content, full_tool_calls, results, hookCalls,
          invocations, dispatched, sent, stream0, hookAnswer, hist0,
          startDepth, startPrompt, startAbort, stopped, failure, masked,
          snapshot, files, saving, loaded, snapshots, heap, sessions, built,
          born, actor, definitions, current_platform, toolPc,
          registered_tools, tool_schemas, tools_by_name, message_queue,
          stop, consumer, arrivals, accepted, taken, started, returned,
          inflight, protected_mode, su_context, aborted, approval, gated,
          effects, cleaning>>

storageVars == <<files, saving, loaded, snapshots>>

replicaVars == <<heap, sessions, built, born, actor>>

toolVars == <<definitions, current_platform, toolPc, registered_tools,
              tool_schemas, tools_by_name>>

\* The chat adapter and the tool registry.
botVars == <<message_queue, stop, consumer, arrivals, accepted, taken,
             started, returned, inflight, protected_mode, su_context,
             aborted>>

gateVars == <<gated, effects>>

adapterVars == <<toolVars, botVars, approval, gateVars, cleaning>>

\* What lies outside a session and its conversation.
worldVars == <<storageVars, replicaVars, adapterVars>>

chainVars == <<hist0, startDepth, startPrompt, startAbort, tools_enabled,
               nsys, masked, snapshot, worldVars>>

stepVars == <<chainVars, failure>>

Ended == pc \in {"returned", "raised"}

\* add_message, lines 33-34, seen from an action that appends to the log.
MaskFollows == mask' = Bump(mask, Len(history') - Len(history))

\* serialize() has not been called.
NoSnapshot == [time |-> "never", history |-> <<>>]

\* The tags snapshots are stored under.
Tags == {"a", "b"}

\* A file of the cache directory: absent, opened for writing and still
\* empty, or written and closed.
NoFile == [state |-> "absent", text |-> <<>>]
OpenedFile == [state |-> "open", text |-> <<>>]

\* No load so far.
NoLoad == [tag |-> NoneV, result |-> "-", history |-> <<>>, saved |-> FALSE,
           expected |-> <<>>]

\* An empty cache directory.
FreshStorage ==
    /\ files = [t \in Tags |-> NoFile]
    /\ saving = {}
    /\ loaded = NoLoad
    /\ snapshots = [t \in Tags |-> [saved |-> FALSE, history |-> <<>>]]

\* Computer.__init__, lines 31-59: a session over the conversation objects
\* c (live) and r (root), with the constructor's arguments.
Session(c, r, tools, mc, timeout, temperature, approval_hook) ==
    [conversation |-> c, root_conversation |-> r, abort_signal |-> FALSE,
     tools |-> tools, max_cycles |-> mc, timeout |-> timeout,
     temperature |-> temperature, approval_hook |-> approval_hook]

\* The configuration of a session.
ConfigOf(s) ==
    [tools |-> s.tools, max_cycles |-> s.max_cycles, timeout |-> s.timeout,
     temperature |-> s.temperature, approval_hook |-> s.approval_hook]

\* Computer() with its defaults: lines 49-50 make two Conversation()
\* objects, one as root and one as the live conversation.
FreshReplicas ==
    /\ heap = <<Constructed(1), Constructed(1)>>
    /\ sessions = <<Session(2, 1, <<"shell">>, 50, 120, "1.0", NoneV)>>
    /\ built = Constructed(1)
    /\ born = <<[history |-> Constructed(1), conversation |-> 2,
                 config |-> ConfigOf(sessions[1])]>>
    /\ actor = 0

\* A decorated function of a tools module: @tool(schema, platform) over
\* def function(...).
Definition(function, schema, platform) ==
    [function |-> function, schema |-> schema, platform |-> platform]

\* tools/sudo.py: two functions of one name over one schema, the first for
\* Linux (lines 27-28), the second for Windows (lines 79-80).
SudoModule ==
    <<Definition("execute_sudo", "ExecuteSudoCommand", "linux"),
      Definition("execute_sudo", "ExecuteSudoCommand", "windows")>>

\* Nothing discovered, no Computer constructed over the tools yet.
FreshRegistry ==
    /\ toolPc = "source"
    /\ registered_tools = <<>>
    /\ tool_schemas = <<>>
    /\ tools_by_name = <<>>

FreshTools ==
    /\ definitions = SudoModule
    /\ current_platform = "linux"
    /\ FreshRegistry

\* ConversationContext.__init__, bot.py 238-248: an empty queue, and the
\* consume() task, which suspends in its first get() (line 259).
FreshBot ==
    /\ message_queue = <<>>
    /\ stop = FALSE
    /\ consumer = [at |-> "get", message |-> 0, author |-> NoneV,
                   is_superuser |-> FALSE]
    /\ protected_mode = TRUE
    /\ su_context = TRUE
    /\ aborted = "no"
    /\ arrivals = 0
    /\ accepted = <<>>
    /\ taken = <<>>
    /\ started = <<>>
    /\ returned = <<>>
    /\ inflight = {}

\* The approval hook is not running.
IdleHook ==
    [at |-> "idle", timeout |-> 0, elapsed |-> 0, waited |-> 0,
     reaction |-> "none", expired |-> FALSE, failed |-> FALSE,
     result |-> "-"]

FreshApproval == approval = IdleHook

\* No approval-gated tool has been called.
FreshGate == gated = <<>> /\ effects = <<>>

\* clean_discord_message has not been called.
FreshCleaning ==
    cleaning = [content |-> <<>>, max_length |-> 0, called |-> FALSE,
                result |-> <<>>]

FreshAdapter ==
    FreshTools /\ FreshBot /\ FreshApproval /\ FreshGate /\ FreshCleaning

FreshWorld == FreshStorage /\ FreshReplicas /\ FreshAdapter

\* The session's variables right after Computer.__init__ (model.py 49-59).
FreshSession ==
    /\ snapshot = NoSnapshot
    /\ abort_signal = FALSE
    /\ pc = "idle"
    /\ depth = 0
    /\ prompt = <<>>
    /\ tools_enabled = TRUE
    /\ stream = <<>>
    /\ response_content = <<>>
    /\ full_tool_calls = <<>>
    /\ results = <<>>
    /\ hookCalls = <<>>
    /\ invocations = 0
    /\ dispatched = <<>>
    /\ sent = <<>>
    /\ stream0 = <<>>
    /\ hookAnswer = NoAnswer
    /\ hist0 = <<>>
    /\ startDepth = 0
    /\ startPrompt = <<>>
    /\ startAbort = FALSE
    /\ stopped = FALSE
    /\ failure = NoneV
    /\ masked = NotMasked

\* Computer.__init__ with a fresh Conversation (conversation.py 11-16).
Init ==
    /\ history = <<Message("system", SystemPrompt, <<>>, NoneV)>>
    /\ mask = NoMask
    /\ nsys = 1
    /\ FreshSession
    /\ FreshWorld

\* Computer.stop_cycling (model.py 90-92), callable at any time.
StopCycling ==
    /\ abort_signal' = StopValue
    /\ stopped' = (stopped \/ pc \in {"call_model", "stream", "tools"})
    /\ UNCHANGED <<history, mask, nsys, pc, depth, prompt, tools_enabled,
                   stream, response_content, full_tool_calls, results,
                   hookCalls, invocations, dispatched, sent, stream0,
                   hookAnswer, hist0, startDepth, startPrompt, startAbort,
                   failure, masked, snapshot, worldVars>>

\* A caller invokes cycle(prompt, hook, depth, tools_enabled).
Start(p, d, te) ==
    /\ pc = "idle"
    /\ pc' = "entry"
    /\ prompt' = p
    /\ depth' = d
    /\ tools_enabled' = te
    /\ stream' = <<>>
    /\ response_content' = <<>>
    /\ full_tool_calls' = <<>>
    /\ results' = <<>>
    /\ hookCalls' = <<>>
    /\ invocations' = 0
    /\ dispatched' = <<>>
    /\ hist0' = history
    /\ startDepth' = d
    /\ startPrompt' = p
    /\ startAbort' = abort_signal
    /\ stopped' = FALSE
    /\ failure' = NoneV
    /\ UNCHANGED <<history, mask, nsys, abort_signal, sent, stream0,
                   hookAnswer, masked, snapshot, worldVars>>

\* cycle, lines 106-150: the synchronous head of a step, up to the await of
\* call_model, whose messages argument is the visible history.
CycleEntry ==
    /\ pc = "entry"
    /\ IF DepthExceeded(depth)
       THEN /\ hookCalls' = Append(hookCalls, TerminalError(MaxDepthMsg))
            /\ pc' = "returned"
            /\ UNCHANGED <<history, mask, abort_signal, invocations, sent>>
       ELSE IF abort_signal /\ AbortStops(depth)
       THEN /\ abort_signal' = FALSE
            /\ history' = add_message(history, "system", PausedNote, <<>>, NoneV)
            /\ MaskFollows
            /\ hookCalls' = Append(hookCalls, TerminalError(AbortedMsg))
            /\ pc' = "returned"
            /\ UNCHANGED <<invocations, sent>>
       ELSE /\ abort_signal' = FALSE
            /\ history' = IF Truthy(prompt)
                          THEN add_message(history, "user", prompt, <<>>, NoneV)
                          ELSE history
            /\ MaskFollows
            /\ sent' = VisibleHistory(history', mask', nsys)
            /\ invocations' = invocations + 1
            /\ pc' = "call_model"
            /\ UNCHANGED hookCalls
    /\ UNCHANGED <<depth, prompt, stream, response_content, full_tool_calls,
                   results, dispatched, stopped, stream0, hookAnswer>>
    /\ UNCHANGED stepVars

\* cycle, lines 144-150: call_model returns the stream s.
ModelReturns(s) ==
    /\ pc = "call_model"
    /\ pc' = "stream"
    /\ stream' = s
    /\ stream0' = s
    /\ hookAnswer' = NoAnswer
    /\ response_content' = <<>>
    /\ full_tool_calls' = <<>>
    /\ UNCHANGED <<history, mask, abort_signal, depth, prompt, results,
                   hookCalls, invocations, dispatched, stopped, sent>>
    /\ UNCHANGED stepVars

\* cycle, lines 156-170: an exception out of call_model or process_stream.
Fail(e) ==
    /\ failure' = e
    /\ IF Caught(e)
       THEN /\ hookCalls' = Append(hookCalls, TerminalError(ErrorMsg(e)))
            /\ pc' = "returned"
       ELSE /\ pc' = "raised"
            /\ UNCHANGED hookCalls
    /\ UNCHANGED <<history, mask, abort_signal, depth, prompt, stream,
                   response_content, full_tool_calls, results, invocations,
                   dispatched, stopped, sent, stream0, hookAnswer>>
    /\ UNCHANGED chainVars

ModelRaises(e) == pc = "call_model" /\ Fail(e)

StreamRaises(e) == pc = "stream" /\ Fail(e)

\* cycle, line 206: the recursive call.
Recurse ==
    /\ pc' = "entry"
    /\ depth' = NextDepth(depth)
    /\ prompt' = <<>>

\* cycle, lines 172-206, from the end of the stream to the next await:
\* the assistant message, the tools-disabled note, or the hand-over to
\* handle_tools.  rc, ftc and hc are process_stream's results and the hook
\* calls made so far.
AfterStream(rc, ftc, hc) ==
    /\ response_content' = rc
    /\ full_tool_calls' = ftc
    /\ results' = <<>>
    /\ IF ~CycleAgain(ftc)
       THEN /\ history' = handle_assistant_msg(history, rc, ftc)
            /\ hookCalls' = Append(hc, HookCall(<<>>, rc, TRUE, TRUE, FALSE))
            /\ pc' = "returned"
            /\ UNCHANGED <<depth, prompt>>
       ELSE IF ~ToolsRun(tools_enabled)
       THEN /\ history' = add_message(handle_assistant_msg(history, rc, ftc),
                                      "system", DisabledNote, <<>>, NoneV)
            /\ hookCalls' = Append(hc, HookCall(<<>>, rc, TRUE, FALSE, FALSE))
            /\ Recurse
       ELSE /\ history' = handle_assistant_msg(history, rc, ftc)
            /\ hookCalls' = hc
            /\ pc' = "tools"
            /\ UNCHANGED <<depth, prompt>>
    /\ MaskFollows
    /\ UNCHANGED <<abort_signal, invocations, dispatched, stopped, sent, stream0>>
    /\ UNCHANGED stepVars

\* process_stream, lines 254-278: one chunk; r is the hook's answer to a
\* text delta.  An answer that `is False` breaks out of the loop before the
\* chunk's fragments are read.
StreamChunk(r) ==
    /\ pc = "stream"
    /\ stream # <<>>
    /\ LET c == Head(stream) IN
       IF Truthy(c.content)
       THEN LET rc == response_content \o c.content
                hc == Append(hookCalls, DeltaHook(c.content, rc))
            IN /\ hookAnswer' = r
               /\ IF IsFalse(r)
                  THEN /\ AfterStream(rc, full_tool_calls, hc)
                       /\ UNCHANGED stream
                  ELSE /\ response_content' = rc
                       /\ hookCalls' = hc
                       /\ full_tool_calls' = AddFragments(full_tool_calls, c.tool_calls)
                       /\ stream' = Tail(stream)
                       /\ UNCHANGED <<history, mask, abort_signal, pc, depth,
                                      prompt, results, invocations, dispatched,
                                      stopped, sent, stream0>>
                       /\ UNCHANGED stepVars
       ELSE /\ r = "True"
            /\ hookAnswer' = NoAnswer
            /\ full_tool_calls' = AddFragments(full_tool_calls, c.tool_calls)
            /\ stream' = Tail(stream)
            /\ UNCHANGED <<history, mask, abort_signal, pc, depth, prompt,
                           response_content, results, hookCalls, invocations,
                           dispatched, stopped, sent, stream0>>
            /\ UNCHANGED stepVars

\* process_stream, line 254: the chunk sequence ends.
StreamEnd ==
    /\ pc = "stream"
    /\ stream = <<>>
    /\ AfterStream(response_content, full_tool_calls, hookCalls)
    /\ UNCHANGED <<stream, hookAnswer>>

\* handle_tools, lines 78-83: the next call, in the dict's order.
ToolExec(ok) ==
    /\ pc = "tools"
    /\ Len(results) < Len(full_tool_calls)
    /\ LET call == full_tool_calls[Len(results) + 1]
           res == execute_tool_call(call, ok)
       IN /\ results' = Append(results, [index |-> call.index, result |-> res])
          /\ dispatched' = Append(dispatched,
                [depth |-> depth, index |-> call.index, call |-> call,
                 result |-> res, executed |-> ExecutorReached(call),
                 raised |-> ~ok])
    /\ UNCHANGED <<history, mask, abort_signal, pc, depth, prompt, stream,
                   response_content, full_tool_calls, hookCalls, invocations,
                   stopped, sent, stream0, hookAnswer>>
    /\ UNCHANGED stepVars

\* cycle, lines 183-206: handle_tools has returned; the tool messages, the
\* hook call and the recursion.
ToolsDone ==
    /\ pc = "tools"
    /\ Len(results) = Len(full_tool_calls)
    /\ history' = history \o ToolMessages(full_tool_calls, results)
    /\ MaskFollows
    /\ hookCalls' = Append(hookCalls,
                           HookCall(<<>>, response_content, TRUE, FALSE, FALSE))
    /\ Recurse
    /\ UNCHANGED <<abort_signal, stream, response_content, full_tool_calls,
                   results, invocations, dispatched, stopped, sent, stream0,
                   hookAnswer>>
    /\ UNCHANGED stepVars

Engine ==
    \/ CycleEntry
    \/ \E s \in Streams : ModelReturns(s)
    \/ \E e \in Failures : ModelRaises(e)
    \/ \E e \in Failures : StreamRaises(e)
    \/ \E r \in HookReturns : StreamChunk(r)
    \/ StreamEnd
    \/ \E ok \in BOOLEAN : ToolExec(ok)
    \/ ToolsDone

Next ==
    \/ \E p \in Prompts, d \in 0..(max_cycles + 1), te \in BOOLEAN : Start(p, d, te)
    \/ StopCycling
    \/ Engine

Spec == Init /\ [][Next]_vars

\* The model call answers or times out, streams end and tools return.
FairSpec == Spec /\ WF_vars(Engine)

\* ------------------------------------- a session on a masked conversation

\* A conversation with one exchange in its log.
Exchanged ==
    <<Message("system", SystemPrompt, <<>>, NoneV),
      Message("user", <<"old">>, <<>>, NoneV),
      Message("assistant", <<"old">>, <<>>, NoneV)>>

\* Computer.__init__ (model.py 49-59) around a conversation on which
\* mask(1) or mask(2) was called (conversation.py 45-50).
MaskInit ==
    /\ history = Exchanged
    /\ nsys = 1
    /\ mask \in {1, 2}
    /\ FreshSession
    /\ FreshWorld

\* Chains started at depth 0, as the callers of cycle() do.
MaskNext ==
    \/ \E p \in Prompts, te \in BOOLEAN : Start(p, 0, te)
    \/ StopCycling
    \/ Engine

MaskSpec == MaskInit /\ [][MaskNext]_vars

\* --------------------------------------------- Conversation on its own

\* What a Conversation does not touch: the session around it.
sessionVars ==
    <<abort_signal, pc, depth, prompt, tools_enabled, stream,
      response_content, full_tool_calls, results, hookCalls, invocations,
      dispatched, sent, stream0, hookAnswer, hist0, startDepth, startPrompt,
      startAbort, stopped, failure, worldVars>>

Roles == {"system", "user", "assistant", "tool"}

\* The number of messages of a log with (sys = TRUE) or without the role
\* system.
CountRole(h, sys) ==
    Cardinality({j \in 1..Len(h) : (h[j].role = "system") = sys})

ConvInit ==
    /\ \E s \in 1..MaxSystem : history = Constructed(s) /\ nsys = s
    /\ mask = NoMask
    /\ FreshSession
    /\ FreshWorld

\* Conversation.add_message, lines 18-34.
ConvAppend(role) ==
    /\ Len(history) < MaxLog
    /\ masked.k < MaxLog
    /\ history' = add_message(history, role, <<"msg">>, <<>>, NoneV)
    /\ MaskFollows
    /\ masked' = IF masked.n = NoMask THEN masked
                 ELSE [masked EXCEPT !.k = @ + 1]
    /\ snapshot' = NoSnapshot
    /\ UNCHANGED <<nsys, sessionVars>>

\* Conversation.mask, lines 45-50.
ConvMask(n) ==
    /\ mask' = n
    /\ masked' = [n |-> n, sys |-> CountRole(history, TRUE),
                  m |-> CountRole(history, FALSE), k |-> 0]
    /\ snapshot' = NoSnapshot
    /\ UNCHANGED <<history, nsys, sessionVars>>

\* Conversation.clear_history, lines 42-43: _mask is left as it is.
ConvClear ==
    /\ history' = SelectSeq(history, LAMBDA msg : msg.role = "system")
    /\ snapshot' = NoSnapshot
    /\ UNCHANGED <<mask, nsys, masked, sessionVars>>

\* Mutant: the snapshot holds the visible history.
serializeVisible(h, mk, ns) ==
    [time |-> "now", history |-> VisibleHistory(h, mk, ns)]

\* Conversation.serialize, lines 52-56: the time and _history.
serialize(h, mk, ns) == [time |-> "now", history |-> h]

\* Mutant: the stored log is put behind the pre-seeded system message.
deserializeSeeded(data) ==
    LET conv == [history |-> Constructed(1), nsys |-> 1, mask |-> NoMask]
    IN [conv EXCEPT !.history = conv.history \o data.history]

\* Conversation.deserialize, lines 58-62: Conversation(system_messages=[])
\* is built with the one default prompt that `system_messages or [...]`
\* puts in place of [], and its _history is then replaced by the stored one.
deserialize(data) ==
    LET conv == [history |-> Constructed(1), nsys |-> 1, mask |-> NoMask]
    IN [conv EXCEPT !.history = data.history]

\* A caller takes a snapshot of the conversation.
ConvSerialize ==
    /\ snapshot' = serialize(history, mask, nsys)
    /\ UNCHANGED <<history, mask, nsys, masked, sessionVars>>

\* ConversationStorage.deserialize(ConversationStorage.serialize(c)),
\* lines 76-81, replaces the conversation.
ConvReload ==
    LET conv == deserialize(serialize(history, mask, nsys))
    IN /\ history' = conv.history
       /\ nsys' = conv.nsys
       /\ mask' = conv.mask
       /\ masked' = NotMasked
       /\ snapshot' = NoSnapshot
       /\ UNCHANGED sessionVars

ConvNext ==
    \/ \E role \in Roles : ConvAppend(role)
    \/ \E n \in 0..MaxLog : ConvMask(n)
    \/ ConvClear
    \/ ConvSerialize
    \/ ConvReload

ConvSpec == ConvInit /\ [][ConvNext]_vars

\* ------------------------------------------------- ConversationStorage

\* What ConversationStorage does not touch.
storageFrame ==
    <<history, mask, nsys, masked, snapshot, abort_signal, pc, depth, prompt,
      tools_enabled, stream, response_content, full_tool_calls, results,
      hookCalls, invocations, dispatched, sent, stream0, hookAnswer, hist0,
      startDepth, startPrompt, startAbort, stopped, failure, replicaVars,
      adapterVars>>

\* json.dumps of a snapshot (line 90): every message becomes an object with
\* its keys in insertion order; the text is that list of objects.
json_dumps(data) ==
    [k \in 1..Len(data.history) |->
        <<"role", data.history[k].role, "content", data.history[k].content,
          "tool_calls", data.history[k].tool_calls,
          "tool_call_id", data.history[k].tool_call_id>>]

\* json.load of a file's text (line 100).
json_load(text) ==
    [time |-> "then",
     history |-> [k \in 1..Len(text) |->
                     Message(text[k][2], text[k][4], text[k][6], text[k][8])]]

\* ConversationStorage.save, lines 84-88: `aiofiles.open(file, "w")` has
\* created or truncated the file; the write is still to come.
SaveOpen(tag) ==
    /\ tag \notin saving
    /\ saving' = saving \cup {tag}
    /\ files' = [files EXCEPT ![tag] = OpenedFile]
    /\ UNCHANGED <<loaded, snapshots, storageFrame>>

\* ConversationStorage.save, lines 89-90: the conversation as it is now is
\* serialized and written, and the file is closed.
SaveWrite(tag) ==
    /\ tag \in saving
    /\ saving' = saving \ {tag}
    /\ files' = [files EXCEPT ![tag] =
                    [state |-> "written",
                     text |-> json_dumps(serialize(history, mask, nsys))]]
    /\ snapshots' = [snapshots EXCEPT
                        ![tag] = [saved |-> TRUE, history |-> history]]
    /\ UNCHANGED <<loaded, storageFrame>>

\* ConversationStorage.load, lines 93-103: FileNotFoundError gives None; a
\* file that exists is parsed, and json.load raises on an empty one.
Load(tag) ==
    /\ loaded' =
          [tag |-> tag,
           result |-> CASE files[tag].state = "absent" -> "None"
                        [] files[tag].state = "open" -> "JSONDecodeError"
                        [] OTHER -> "Conversation",
           history |-> IF files[tag].state = "written"
                       THEN deserialize(json_load(files[tag].text)).history
                       ELSE <<>>,
           saved |-> snapshots[tag].saved,
           expected |-> snapshots[tag].history]
    /\ UNCHANGED <<files, saving, snapshots, storageFrame>>

StorageInit ==
    /\ history = Constructed(1)
    /\ mask = NoMask
    /\ nsys = 1
    /\ FreshSession
    /\ FreshWorld

StorageNext ==
    \/ ConvAppend("user")
    \/ \E tag \in Tags : SaveOpen(tag)
    \/ \E tag \in Tags : SaveWrite(tag)
    \/ \E tag \in Tags : Load(tag)

StorageSpec == StorageInit /\ [][StorageNext]_vars

\* ------------------------------------------- a template and its replicas

\* What the sessions' calls do not touch.
replicaFrame ==
    <<history, mask, nsys, masked, snapshot, abort_signal, pc, depth, prompt,
      tools_enabled, stream, response_content, full_tool_calls, results,
      hookCalls, invocations, dispatched, sent, stream0, hookAnswer, hist0,
      startDepth, startPrompt, startAbort, stopped, failure, storageVars,
      adapterVars>>

\* The log of a session's live and of its root conversation.
LogOf(hp, s) == hp[s.conversation]
RootOf(hp, s) == hp[s.root_conversation]

\* Computer.__init__, lines 49-50, with a conversation object c:
\* root_conversation is a deep copy of it, conversation is the object itself.
InitWith(hp, c, tools, mc, timeout, temperature, approval_hook) ==
    [heap |-> Append(hp, hp[c]),
     session |-> Session(c, Len(hp) + 1, tools, mc, timeout, temperature,
                         approval_hook)]

\* Mutant: the replica is made of the template's live conversation.
ReplicateSourceLive(s) == s.conversation

\* replicate, line 67: the conversation the replica is made of.
ReplicateSource(s) == s.root_conversation

\* Mutant: the replica is handed the object itself.
CopyForReplicaShared(hp, c) == [heap |-> hp, id |-> c]

\* replicate, line 67: copy.deepcopy makes a new Conversation object.
CopyForReplica(hp, c) == [heap |-> Append(hp, hp[c]), id |-> Len(hp) + 1]

\* A template built with non-default arguments, around a conversation it
\* was given or around none.
ReplicaInit ==
    /\ \E given \in {<<>>, Exchanged} :
          /\ built = (IF given = <<>> THEN Constructed(1) ELSE given)
          /\ LET made == InitWith(<<built>>, 1, <<"shell">>, 5, 30,
                                  "0.2", NoneV)
             IN IF given = <<>>
                THEN /\ heap = <<Constructed(1), Constructed(1)>>
                     /\ sessions = <<[made.session EXCEPT
                                        !.conversation = 2,
                                        !.root_conversation = 1]>>
                ELSE /\ heap = made.heap
                     /\ sessions = <<made.session>>
    /\ born = <<[history |-> built,
                 conversation |-> sessions[1].conversation,
                 config |-> ConfigOf(sessions[1])]>>
    /\ actor = 0
    /\ history = Constructed(1)
    /\ mask = NoMask
    /\ nsys = 1
    /\ FreshSession
    /\ FreshStorage
    /\ FreshAdapter

\* Computer.replicate, lines 61-69, on the template: a new Computer with
\* the template's tools, max_cycles, timeout and approval_hook, and a deep
\* copy of the root conversation; temperature is not passed on and takes
\* the constructor's default.
Replicate ==
    /\ Len(sessions) <= MaxReplicas
    /\ LET copy == CopyForReplica(heap, ReplicateSource(sessions[1]))
           made == InitWith(copy.heap, copy.id, sessions[1].tools,
                            sessions[1].max_cycles, sessions[1].timeout,
                            "1.0", sessions[1].approval_hook)
       IN /\ heap' = made.heap
          /\ sessions' = Append(sessions, made.session)
          /\ born' = Append(born, [history |-> LogOf(made.heap, made.session),
                                   conversation |-> made.session.conversation,
                                   config |-> ConfigOf(sessions[1])])
    /\ actor' = 0
    /\ UNCHANGED <<built, replicaFrame>>

\* conversation.add_message on a session's conversation; tried on
\* conversations that hold their system prompt only.
SessAppend(i) ==
    /\ LogOf(heap, sessions[i]) = Constructed(1)
    /\ heap' = [heap EXCEPT ![sessions[i].conversation] =
                   add_message(@, "user", <<"msg">>, <<>>, NoneV)]
    /\ actor' = i
    /\ UNCHANGED <<sessions, built, born, replicaFrame>>

\* conversation.clear_history on a session's conversation.
SessClear(i) ==
    /\ heap' = [heap EXCEPT ![sessions[i].conversation] =
                   SelectSeq(@, LAMBDA msg : msg.role = "system")]
    /\ actor' = i
    /\ UNCHANGED <<sessions, built, born, replicaFrame>>

\* A chain of cycle() on a session, as the other sessions can see it: the
\* abort flag is taken down (line 113) and the prompt and the answer are
\* appended to the session's conversation (lines 129, 172); tried on
\* conversations that hold their system prompt only.
SessCycle(i) ==
    /\ LogOf(heap, sessions[i]) = Constructed(1)
    /\ heap' = [heap EXCEPT ![sessions[i].conversation] =
                   handle_assistant_msg(
                       add_message(@, "user", <<"hi">>, <<>>, NoneV),
                       <<"a">>, <<>>)]
    /\ sessions' = [sessions EXCEPT ![i].abort_signal = FALSE]
    /\ actor' = i
    /\ UNCHANGED <<built, born, replicaFrame>>

\* Computer.stop_cycling on a session.
SessStop(i) ==
    /\ sessions' = [sessions EXCEPT ![i].abort_signal = StopValue]
    /\ actor' = i
    /\ UNCHANGED <<heap, built, born, replicaFrame>>

\* Computer.set_conversation, lines 71-73, with a conversation made for it
\* (bot.py 411, 547), tried once per session; the object it replaces is
\* out of the sessions' reach and is emptied here.
SetConversation(i) ==
    /\ sessions[i].conversation = born[i].conversation
    /\ heap' = Append([heap EXCEPT ![sessions[i].conversation] = <<>>],
                      Constructed(1))
    /\ sessions' = [sessions EXCEPT ![i].conversation = Len(heap) + 1]
    /\ actor' = i
    /\ UNCHANGED <<built, born, replicaFrame>>

\* DiscordBot.__init__, bot.py 435: the template gets its approval hook.
SetApprovalHook ==
    /\ sessions[1].approval_hook = NoneV
    /\ sessions' = [sessions EXCEPT ![1].approval_hook = "approval_hook"]
    /\ actor' = 1
    /\ UNCHANGED <<heap, built, born, replicaFrame>>

ReplicaNext ==
    \/ Replicate
    \/ SetApprovalHook
    \/ \E i \in 1..Len(sessions) :
          \/ SessAppend(i)
          \/ SessClear(i)
          \/ SessCycle(i)
          \/ SessStop(i)
    \/ SetConversation(1)

ReplicaSpec == ReplicaInit /\ [][ReplicaNext]_vars

\* --------------------------------------------- handle_tools on its own

\* The names and argument strings a reconstructed call may carry: no name,
\* an empty name, a registered and an unregistered name; no arguments, a
\* truncated object and a complete one.
CallNames == {NoneV, "", "shell", "nope"}
CallArgs == {<<>>, <<"{">>, <<"{", "}">>}

\* Every full_tool_calls of at most MaxCalls records, keyed 0, 1, ...
BoundedCalls ==
    UNION {{[k \in 1..n |-> [index |-> k - 1, id |-> "id", name |-> f[k][1],
                              arguments |-> f[k][2]]] :
              f \in [1..n -> CallNames \X CallArgs]} : n \in 1..MaxCalls}

\* The first step of a chain at the moment handle_tools is entered, for
\* every bounded set of reconstructed calls.
DispatchInit ==
    /\ full_tool_calls \in BoundedCalls
    /\ pc = "tools"
    /\ hist0 = <<Message("system", SystemPrompt, <<>>, NoneV)>>
    /\ sent = add_message(hist0, "user", <<"hi">>, <<>>, NoneV)
    /\ history = handle_assistant_msg(sent, <<>>, full_tool_calls)
    /\ mask = NoMask
    /\ nsys = 1
    /\ abort_signal = FALSE
    /\ depth = 0
    /\ prompt = <<"hi">>
    /\ tools_enabled = TRUE
    /\ stream = <<>>
    /\ stream0 = <<>>
    /\ response_content = <<>>
    /\ results = <<>>
    /\ hookCalls = <<>>
    /\ invocations = 1
    /\ dispatched = <<>>
    /\ hookAnswer = NoAnswer
    /\ startDepth = 0
    /\ startPrompt = <<"hi">>
    /\ startAbort = FALSE
    /\ stopped = FALSE
    /\ failure = NoneV
    /\ masked = NotMasked
    /\ snapshot = NoSnapshot
    /\ FreshWorld

DispatchNext ==
    \/ \E ok \in BOOLEAN : ToolExec(ok)
    \/ ToolsDone

DispatchSpec == DispatchInit /\ [][DispatchNext]_vars

\* ------------------------------------------- process_stream on its own

\* The first step of a chain at the moment call_model has returned, for
\* every bounded chunk sequence.
StreamInit ==
    /\ stream0 \in BoundedStreams
    /\ stream = stream0
    /\ pc = "stream"
    /\ hist0 = <<Message("system", SystemPrompt, <<>>, NoneV)>>
    /\ history = add_message(hist0, "user", <<"hi">>, <<>>, NoneV)
    /\ sent = history
    /\ mask = NoMask
    /\ nsys = 1
    /\ abort_signal = FALSE
    /\ depth = 0
    /\ prompt = <<"hi">>
    /\ tools_enabled = TRUE
    /\ response_content = <<>>
    /\ full_tool_calls = <<>>
    /\ results = <<>>
    /\ hookCalls = <<>>
    /\ invocations = 1
    /\ dispatched = <<>>
    /\ hookAnswer = NoAnswer
    /\ startDepth = 0
    /\ startPrompt = <<"hi">>
    /\ startAbort = FALSE
    /\ stopped = FALSE
    /\ failure = NoneV
    /\ masked = NotMasked
    /\ snapshot = NoSnapshot
    /\ FreshWorld

StreamNext ==
    \/ \E r \in HookReturns : StreamChunk(r)
    \/ StreamEnd

StreamSpec == StreamInit /\ [][StreamNext]_vars

\* ------------------------------------------------------------ claims

Last(q) == q[Len(q)]

IsTerminalError(h) == h.stream_done /\ h.cycle_done /\ h.error

PausedMessage == Message("system", PausedNote, <<>>, NoneV)

AssistantMessage(rc, ftc) == Message("assistant", rc, ToolCallList(ftc), NoneV)

\* C1: a chain started with depth >= max_cycles never invokes the model,
\* leaves the conversation log as it was, and has called the hook exactly
\* once, with stream_done, cycle_done and error all true, when it returns.
C1_DepthGuard ==
    (pc # "idle" /\ startDepth >= max_cycles) =>
        /\ invocations = 0
        /\ history = hist0
        /\ pc \in {"entry", "returned"}
        /\ pc = "entry" => hookCalls = <<>>
        /\ pc = "returned" => Len(hookCalls) = 1 /\ IsTerminalError(hookCalls[1])

C1_Witness ==
    pc = "returned" /\ startDepth >= max_cycles /\ Len(hookCalls) = 1

\* C2: a chain started at depth 0 performs at most max_cycles model
\* invocations and always ends, with tools enabled or disabled and also when
\* every turn returns tool calls.
C2_Bounded ==
    /\ [](startDepth = 0 => invocations <= max_cycles)
    /\ (pc = "entry" /\ startDepth = 0) ~> Ended

C2_Witness ==
    /\ Ended
    /\ startDepth = 0
    /\ invocations = max_cycles
    /\ depth = max_cycles
    /\ Last(hookCalls).content = MaxDepthMsg

\* C3: when the model call of a cycle started with a non-null prompt raises
\* a timeout, the hook has received exactly one call, a terminal error, and
\* the log equals the log before the call.
C3_TimeoutLeavesLog ==
    [][(/\ pc = "call_model"
        /\ startDepth = 0
        /\ depth = 0
        /\ Truthy(startPrompt)
        /\ failure' = "APITimeoutError")
       => (/\ Len(hookCalls') = 1
           /\ IsTerminalError(hookCalls'[1])
           /\ history' = hist0)]_vars

\* C4: a failure of the model call or of the stream consumption, at any
\* depth, makes cycle return normally; it is reported by exactly one hook
\* call with error and cycle_done, which is the last hook call of the chain,
\* and no model invocation follows it.
C4_FailureReportedOnce ==
    [][failure' # NoneV =>
        /\ pc' = "returned"
        /\ hookCalls' # <<>>
        /\ Last(hookCalls').error /\ Last(hookCalls').cycle_done
        /\ \A k \in 1..(Len(hookCalls') - 1) : ~hookCalls'[k].error
        /\ failure = NoneV =>
              /\ hookCalls' = Append(hookCalls, Last(hookCalls'))
              /\ invocations' = invocations
              /\ history' = history
        /\ failure # NoneV =>
              /\ hookCalls' = hookCalls
              /\ invocations' = invocations]_vars

C4_Witness ==
    /\ failure = "Exception"
    /\ pc = "returned"
    /\ depth = 1
    /\ Len(hookCalls) >= 3

\* C5: whenever cycle has returned, every tool call listed by an assistant
\* message of the log is followed by a tool message carrying that call's id.
C5_NoDanglingToolCall ==
    Ended =>
        \A k \in 1..Len(history) :
            \A j \in 1..Len(history[k].tool_calls) :
                \E m \in (k + 1)..Len(history) :
                    /\ history[m].role = "tool"
                    /\ history[m].tool_call_id = history[k].tool_calls[j].id

\* C6: a recursive step (0 < depth < max_cycles) that starts with the abort
\* flag set clears the flag, appends exactly one system message noting the
\* pause, calls the hook once with stream_done, cycle_done and error true,
\* does not invoke the model and ends the chain.
C6_AbortStopsRecursiveStep ==
    [][(/\ pc = "entry" /\ pc' # "entry"
        /\ 0 < depth /\ depth < max_cycles
        /\ abort_signal)
       => (/\ ~abort_signal'
           /\ history' = Append(history, PausedMessage)
           /\ Len(hookCalls') = Len(hookCalls) + 1
           /\ \A k \in 1..Len(hookCalls) : hookCalls'[k] = hookCalls[k]
           /\ IsTerminalError(Last(hookCalls'))
           /\ invocations' = invocations
           /\ pc' = "returned")]_vars

C6_Witness ==
    /\ pc = "returned"
    /\ startDepth = 0
    /\ depth = 1
    /\ Last(history) = PausedMessage
    /\ Last(hookCalls).content = AbortedMsg

\* C7: a step at depth 0 that starts with the abort flag set does what it
\* does with the flag clear: the flag ends up clear, no pause message is
\* appended, the hook is not called, the prompt (if any) is appended as a
\* user message and the model is invoked.
C7_StaleAbortIgnored ==
    [][(/\ pc = "entry" /\ pc' # "entry"
        /\ depth = 0
        /\ abort_signal)
       => (/\ ~abort_signal'
           /\ hookCalls' = hookCalls
           /\ history' = IF Truthy(prompt)
                         THEN Append(history, Message("user", prompt, <<>>, NoneV))
                         ELSE history
           /\ invocations' = invocations + 1
           /\ pc' = "call_model")]_vars

C7_Witness ==
    /\ pc = "call_model"
    /\ startDepth = 0 /\ depth = 0
    /\ startAbort
    /\ ~abort_signal
    /\ Last(history).role = "user"

\* C8: once stop_cycling() was called during the model call, the streaming
\* or the tool execution of a step, no further model invocation is started
\* in that chain, and the step in progress still appends its assistant
\* message and every tool result.
C8_StopAtBoundary ==
    [][/\ stopped => invocations' = invocations
       /\ (stopped /\ pc = "stream" /\ pc' # "stream" /\ failure' = NoneV) =>
             /\ Len(history') > Len(history)
             /\ history'[Len(history) + 1]
                   = AssistantMessage(response_content', full_tool_calls')
       /\ (stopped /\ pc = "tools" /\ pc' # "tools") =>
             /\ Len(results) = Len(full_tool_calls)
             /\ history' = history \o ToolMessages(full_tool_calls, results)]_vars

C8_Witness ==
    /\ stopped
    /\ pc = "returned"
    /\ startDepth = 0 /\ depth = 1
    /\ invocations = 1
    /\ Len(history) >= 2
    /\ history[Len(history) - 1].role = "tool"
    /\ Last(history) = PausedMessage

\* C9: in a chain with tools disabled no tool call is dispatched, and every
\* assistant message of the chain that lists tool calls is directly followed
\* by the system note that tool execution is disabled, so the note is in the
\* log before the next model invocation.
C9_DisabledToolsNotRun ==
    (pc # "idle" /\ ~tools_enabled) =>
        /\ dispatched = <<>>
        /\ results = <<>>
        /\ pc # "tools"
        /\ \A k \in (Len(hist0) + 1)..Len(history) :
              (history[k].role = "assistant" /\ history[k].tool_calls # <<>>) =>
                  /\ k < Len(history)
                  /\ history[k + 1] = Message("system", DisabledNote, <<>>, NoneV)

C9_Witness ==
    /\ ~tools_enabled
    /\ pc = "call_model"
    /\ depth = 1
    /\ invocations = 2
    /\ Last(history).content = DisabledNote

\* C10: the tool calls of one turn are dispatched, and their results kept
\* for appending, in ascending order of the calls' position indices.
C10_AscendingIndexOrder ==
    /\ \A i, j \in 1..Len(dispatched) :
          (i < j /\ dispatched[i].depth = dispatched[j].depth)
              => dispatched[i].index < dispatched[j].index
    /\ \A i, j \in 1..Len(results) :
          i < j => results[i].index < results[j].index


\* The dispatches of the step at depth d, in order.
DispatchedAt(d) == SelectSeq(dispatched, LAMBDA x : x.depth = d)

\* C11: when handle_tools has returned for a turn with k collected calls,
\* exactly k tool messages are appended directly after the assistant
\* message, the j-th carrying the id of the j-th listed call and the string
\* execute_tool_call returned for that call.
C11_OneToolMessagePerCall ==
    [][(pc = "tools" /\ pc' # "tools") =>
        LET n == Len(history)
            k == Len(full_tool_calls)
            mine == DispatchedAt(depth)
        IN /\ history[n] = AssistantMessage(response_content, full_tool_calls)
           /\ Len(history') = n + k
           /\ SubSeq(history', 1, n) = history
           /\ Len(mine) = k
           /\ \A j \in 1..k :
                /\ history'[n + j].role = "tool"
                /\ history'[n + j].tool_calls = <<>>
                /\ mine[j].call.id = history[n].tool_calls[j].id
                /\ history'[n + j].tool_call_id = history[n].tool_calls[j].id
                /\ history'[n + j].content = mine[j].result]_vars

C11_Witness ==
    /\ pc = "entry"
    /\ startDepth = 0 /\ depth = 1
    /\ Len(history) >= 3
    /\ history[Len(history) - 2].role = "assistant"
    /\ history[Len(history) - 1].tool_call_id = "id1"
    /\ Last(history).tool_call_id = "id0"
    /\ Last(history).content = <<"Error parsing tool call: ", "str(e)">>

\* Hook calls that close a turn: stream_done without error.
TurnHooks(hc) == Cardinality({k \in 1..Len(hc) : hc[k].stream_done /\ ~hc[k].error})

\* A turn whose model call succeeded comes to its end in this step.
TurnEnds ==
    \/ pc = "stream" /\ pc' \in {"entry", "returned"} /\ failure' = NoneV
    \/ pc = "tools" /\ pc' # "tools"

\* C12: a turn whose model call succeeded ends with exactly one hook call
\* with an empty delta, stream_done, no error and cycle_done = (no tool
\* calls collected), made once the assistant message and any tool results
\* are in the log; the engine recurses, with a null prompt, depth + 1 and
\* the same tools_enabled, exactly when tool calls were collected.
C12_TurnHookAndRecursion ==
    [][/\ TurnEnds =>
            /\ TurnHooks(hookCalls') = TurnHooks(hookCalls) + 1
            /\ Last(hookCalls').delta = <<>>
            /\ Last(hookCalls').stream_done
            /\ ~Last(hookCalls').error
            /\ Last(hookCalls').cycle_done = (full_tool_calls' = <<>>)
            /\ pc = "stream" =>
                  history'[Len(history) + 1]
                      = AssistantMessage(response_content', full_tool_calls')
            /\ pc = "tools" =>
                  /\ history[Len(history)]
                        = AssistantMessage(response_content, full_tool_calls)
                  /\ Len(history') = Len(history) + Len(full_tool_calls)
            /\ (pc' = "entry") = (full_tool_calls' # <<>>)
            /\ pc' = "entry" =>
                  /\ prompt' = <<>>
                  /\ depth' = depth + 1
                  /\ tools_enabled' = tools_enabled
            /\ pc' # "entry" => pc' = "returned"
       /\ (~TurnEnds /\ pc' # "entry") => TurnHooks(hookCalls') = TurnHooks(hookCalls)
       /\ (~TurnEnds /\ pc' = "entry" /\ pc # "entry") => pc = "idle"]_vars

C12_Witness ==
    /\ pc = "returned"
    /\ failure = NoneV
    /\ startDepth = 0 /\ depth = 1
    /\ tools_enabled
    /\ Len(hookCalls) >= 2
    /\ Last(hookCalls).cycle_done /\ ~Last(hookCalls).error
    /\ \E k \in 1..Len(hookCalls) :
          hookCalls[k].stream_done /\ ~hookCalls[k].cycle_done
    /\ \E k \in 1..Len(history) : history[k].role = "tool"

\* User messages the chain has appended.
UserAdded ==
    Cardinality({k \in (Len(hist0) + 1)..Len(history) : history[k].role = "user"})

\* C13: a chain has appended one user message if its prompt is non-null,
\* and none otherwise.
C13_UserIffPrompt ==
    Ended => UserAdded = (IF Truthy(startPrompt) THEN 1 ELSE 0)

\* C13 (amended): a chain appends a user message exactly when its first
\* step gets past the depth guard and the abort check with a non-empty
\* prompt; the message is in the log before the model is invoked, it is the
\* only user message of the chain, and recursive steps add none.
C13_UserWhenStepProceeds ==
    pc # "idle" =>
        /\ UserAdded = (IF Truthy(startPrompt) /\ invocations >= 1 THEN 1 ELSE 0)
        /\ UserAdded = 1 =>
              history[Len(hist0) + 1] = Message("user", startPrompt, <<>>, NoneV)

C13_Witness ==
    /\ pc = "returned"
    /\ startDepth = 0
    /\ Truthy(startPrompt)
    /\ invocations = 2
    /\ UserAdded = 1


\* The text deltas of a chunk sequence, concatenated.
RECURSIVE AllText(_)
AllText(chunks) ==
    IF chunks = <<>> THEN <<>>
    ELSE Head(chunks).content \o AllText(Tail(chunks))

\* The fragments of a chunk sequence, in arrival order.
RECURSIVE AllFrags(_)
AllFrags(chunks) ==
    IF chunks = <<>> THEN <<>>
    ELSE Head(chunks).tool_calls \o AllFrags(Tail(chunks))

\* The argument fragments for position i, concatenated in arrival order.
RECURSIVE ArgsOf(_, _)
ArgsOf(frags, i) ==
    IF frags = <<>> THEN <<>>
    ELSE (IF Head(frags).index = i THEN Head(frags).arguments ELSE <<>>)
         \o ArgsOf(Tail(frags), i)

\* process_stream ran through the whole sequence.
ConsumedToEnd == pc # "stream" /\ stream = <<>>

\* C15: for a chunk sequence consumed to its end, the text returned is the
\* concatenation of the deltas and there is exactly one record per position
\* that appeared, whose arguments are the concatenation of that position's
\* fragments in arrival order.
C15_Reassembly ==
    ConsumedToEnd =>
        LET frags == AllFrags(stream0)
            seen == {frags[k].index : k \in 1..Len(frags)}
        IN /\ response_content = AllText(stream0)
           /\ {full_tool_calls[k].index : k \in 1..Len(full_tool_calls)} = seen
           /\ Len(full_tool_calls) = Cardinality(seen)
           /\ \A k \in 1..Len(full_tool_calls) :
                 full_tool_calls[k].arguments
                     = ArgsOf(frags, full_tool_calls[k].index)

C15_Witness ==
    /\ ConsumedToEnd
    /\ stream0 = <<Chunk(<<>>, <<Frag(0, "id0", "shell", <<"{">>)>>),
                   Chunk(<<"b">>, <<Frag(1, "id1", "shell", <<"{">>)>>),
                   Chunk(<<>>, <<Frag(0, NoneV, NoneV, <<"}">>)>>)>>
    /\ full_tool_calls[1].arguments = <<"{", "}">>
    /\ full_tool_calls[2].arguments = <<"{">>

\* The hook calls process_stream made (stream_done = false).
DeltaCalls(hc) == SelectSeq(hc, LAMBDA h : ~h.stream_done)

\* A step in which the hook is called with a text delta.
DeltaStep ==
    /\ pc = "stream"
    /\ stream # <<>>
    /\ Truthy(Head(stream).content)
    /\ hookCalls' # hookCalls
    /\ failure' = NoneV

\* process_stream stops at the chunk it is at: the chunk's fragments and
\* the later chunks stay unread, the delta is the last one the hook gets,
\* and the text with this delta and the calls collected before are returned.
StopsHere ==
    /\ pc' # "stream"
    /\ stream' = stream
    /\ response_content' = response_content \o Head(stream).content
    /\ full_tool_calls' = full_tool_calls
    /\ Len(DeltaCalls(hookCalls')) = Len(DeltaCalls(hookCalls)) + 1

Falsy(r) == r \in {"False", "None"}

\* C16: if the hook returns a falsy result on a text delta, process_stream
\* stops consuming at once and returns what it has accumulated.
C16_FalsyStops ==
    [][(DeltaStep /\ Falsy(hookAnswer')) => StopsHere]_vars

\* C16 (amended): if the hook returns False on a text delta, process_stream
\* stops consuming at once and returns what it has accumulated.
C16_FalseStops ==
    [][(DeltaStep /\ hookAnswer' = "False") => StopsHere]_vars

C16_Witness ==
    /\ pc # "stream"
    /\ hookAnswer = "False"
    /\ Len(stream) >= 2
    /\ Head(stream).tool_calls # <<>>
    /\ full_tool_calls # <<>>
    /\ Len(DeltaCalls(hookCalls)) = 1

\* The hook calls a chunk sequence gives rise to when each delta is answered
\* with "go on"; acc is the text before the sequence.
RECURSIVE ExpectedDeltaCalls(_, _)
ExpectedDeltaCalls(chunks, acc) ==
    IF chunks = <<>> THEN <<>>
    ELSE LET c == Head(chunks)
         IN IF c.content # <<>>
            THEN <<HookCall(c.content, acc \o c.content, FALSE, FALSE, FALSE)>>
                 \o ExpectedDeltaCalls(Tail(chunks), acc \o c.content)
            ELSE ExpectedDeltaCalls(Tail(chunks), acc)

\* The chunks read so far: those taken off the stream, and the one at
\* which process_stream broke off.
ChunksRead ==
    SubSeq(stream0, 1,
           Len(stream0) - Len(stream)
               + (IF pc # "stream" /\ stream # <<>> THEN 1 ELSE 0))

\* C17: the hook calls made during streaming are, in chunk order, one call
\* per chunk that carries a non-empty delta, with that delta, the text
\* accumulated so far and stream_done = cycle_done = error = false; chunks
\* with fragments only cause no call.
C17_OneCallPerDelta ==
    DeltaCalls(hookCalls) = ExpectedDeltaCalls(ChunksRead, <<>>)

C17_Witness ==
    /\ pc = "stream"
    /\ stream = <<>>
    /\ Len(stream0) = 3
    /\ stream0[2].content = <<>>
    /\ Len(hookCalls) = 2
    /\ hookCalls[2].delta = <<"b">>
    /\ hookCalls[2].content = <<"a", "b">>


\* A name that is given and is not registered.
UnknownName(call) == ~NoName(call.name) /\ call.name \notin ToolNames

\* C18: every call handed to execute_tool_call comes back with a string:
\* an unknown name gives "Error: Tool '<name>' not found", arguments that
\* do not parse give a string starting "Error parsing tool call: ", an
\* executor that raises gives a string starting "Error executing tool: ",
\* and in the first two cases the executor is not invoked.
C18_DispatchNeverThrows ==
    \A k \in 1..Len(dispatched) :
        LET d == dispatched[k]
            c == d.call
        IN /\ d.result # <<>>
           /\ failure = NoneV
           /\ UnknownName(c) =>
                 /\ d.result = <<"Error: Tool '", c.name, "' not found">>
                 /\ ~d.executed
           /\ (c.name \in ToolNames /\ ~Parses(c.arguments)) =>
                 /\ Head(d.result) = "Error parsing tool call: "
                 /\ ~d.executed
           /\ (d.executed /\ d.raised) =>
                 Head(d.result) = "Error executing tool: "

C18_Witness ==
    /\ pc # "tools"
    /\ Len(dispatched) = 2
    /\ UnknownName(dispatched[1].call)
    /\ ~Parses(dispatched[1].call.arguments)
    /\ dispatched[2].executed
    /\ dispatched[2].raised
    /\ Last(history).content = <<"Error executing tool: ", "str(e)">>


\* A mask(n) call with 0 <= n <= m is in force.
MaskedWithin == masked.n # NoMask /\ masked.n <= masked.m

\* C19: after mask(n) with 0 <= n <= m and k appends, the visible history
\* has as many messages as the log had system messages when mask(n) was
\* called, plus n, plus k.
C19_VisibleLength ==
    MaskedWithin =>
        Len(VisibleHistory(history, mask, nsys))
            = masked.sys + masked.n + masked.k

\* C20: every message appended after mask(n) is in the visible history,
\* right after its append and after every later one.
C20_AppendedVisible ==
    masked.n # NoMask =>
        \A j \in (Len(history) - masked.k + 1)..Len(history) :
            j <= Len(VisibleHistory(history, mask, nsys))


\* C14: the messages passed to the model are the visible history at that
\* moment, and they hold what the chain has appended up to then: the user
\* prompt of the first step, and the assistant message with the tool
\* results or the tools-disabled note of the steps before a recursive one.
C14_SentIsVisibleWithNew ==
    pc = "call_model" =>
        /\ sent = VisibleHistory(history, mask, nsys)
        /\ \A j \in (Len(hist0) + 1)..Len(history) :
              j <= Len(sent) /\ sent[j] = history[j]

\* A step that is a mask(n) call.
MaskStep == masked' # masked /\ masked'.n # NoMask /\ masked'.k = 0

\* C21: mask(n) leaves the log as it is, and serialize() returns the whole
\* log also while a mask hides part of it.
C21_MaskIsAView ==
    [][/\ MaskStep => history' = history
       /\ (snapshot' # snapshot /\ snapshot' # NoSnapshot) =>
             (snapshot'.history = history /\ history' = history)]_vars

C21_Witness ==
    /\ mask # NoMask
    /\ masked.k = 0
    /\ Len(VisibleHistory(history, mask, nsys)) < Len(history)
    /\ snapshot.history = history

\* The system messages of a log, in order.
SystemOnly(h) == SelectSeq(h, LAMBDA msg : msg.role = "system")

\* C22: after a clear the visible history is the system messages the log
\* held before, in their order, and nothing else, whatever the mask.
C22_ClearKeepsSystem ==
    [][Len(history') < Len(history) =>
          VisibleHistory(history', mask', nsys') = SystemOnly(history)]_vars

\* A step that puts a conversation through serialize and deserialize.
ReloadStep == (mask # NoMask \/ nsys # 1) /\ mask' = NoMask /\ nsys' = 1

\* C23: the log of deserialize(serialize(c)) is the log of c, message for
\* message, whatever the mask of c.
C23_RoundTripKeepsLog ==
    [][ReloadStep => history' = history]_vars

C23_Witness ==
    /\ nsys = 1
    /\ mask = NoMask
    /\ Len(history) = 3
    /\ history[1] = Message("system", SystemPrompt, <<>>, NoneV)
    /\ history[2] = Message("system", SystemPrompt, <<>>, NoneV)
    /\ history[3].role = "user"

\* C24: a load returns None, and does not raise, exactly when no snapshot
\* was saved under its tag; otherwise it returns a conversation with the log
\* of the latest save under that tag, whatever was saved under other tags.
C24_LoadFindsSnapshot ==
    loaded # NoLoad =>
        /\ loaded.result \in {"None", "Conversation"}
        /\ loaded.result = "None" <=> ~loaded.saved
        /\ loaded.result = "Conversation" => loaded.history = loaded.expected

\* C25: whatever was done to the template, a replica starts with the log
\* the template was constructed with.
C25_ReplicaStartsFromRoot ==
    \A r \in 2..Len(sessions) : born[r].history = built

C25_Witness ==
    /\ Len(sessions) = 3
    /\ born[3].history = Exchanged
    /\ LogOf(heap, sessions[2]) # built
    /\ LogOf(heap, sessions[1]) = Constructed(1)
    /\ sessions[1].conversation > 2

\* C26: a call on one session leaves the log, the root snapshot and the
\* abort flag of every other session as they were, and a new replica has its
\* abort flag down.
C26_NothingShared ==
    [][/\ \A t \in 1..Len(sessions) :
             t # actor' =>
                 /\ LogOf(heap', sessions'[t]) = LogOf(heap, sessions[t])
                 /\ RootOf(heap', sessions'[t]) = RootOf(heap, sessions[t])
                 /\ sessions'[t].abort_signal = sessions[t].abort_signal
       /\ \A t \in 1..Len(sessions) :
             RootOf(heap', sessions'[t]) = RootOf(heap, sessions[t])
       /\ Len(sessions') > Len(sessions) =>
             ~sessions'[Len(sessions')].abort_signal]_vars

C26_Witness ==
    /\ Len(sessions) = 3
    /\ sessions[1].abort_signal
    /\ ~sessions[2].abort_signal
    /\ LogOf(heap, sessions[2]) # LogOf(heap, sessions[3])
    /\ LogOf(heap, sessions[3]) = RootOf(heap, sessions[1])
    /\ actor = 2

\* C27: a replica has the configuration its template had when it was made.
C27_ReplicaSameConfig ==
    \A r \in 2..Len(sessions) : ConfigOf(sessions[r]) = born[r].config

\* ------------------------------------------------------ the tool registry

\* The session and conversation of the cycle chain.
innerVars ==
    <<history, mask, nsys, masked, snapshot, abort_signal, pc, depth, prompt,
      tools_enabled, stream, response_content, full_tool_calls, results,
      hookCalls, invocations, dispatched, sent, stream0, hookAnswer, hist0,
      startDepth, startPrompt, startAbort, stopped, failure>>

\* What discovery and the construction over its result do not touch.
toolFrame ==
    <<innerVars, storageVars, replicaVars, botVars, approval, gateVars, cleaning>>

\* The most decorated functions a module of the model defines.
MaxDefs == 2

\* Function names in the order inspect.getmembers lists them (sorted by
\* name), schema names and platform constraints (None: no constraint).
FunctionNames == <<"execute_command", "execute_sudo">>
SchemaNames == {"ExecuteCommand", "ExecuteSudoCommand"}
Platforms == {"linux", "windows"}

BoundedModules ==
    UNION {[1..n -> {Definition(FunctionNames[f], s, p) :
                       f \in 1..Len(FunctionNames), s \in SchemaNames,
                       p \in Platforms \cup {NoneV}}] : n \in 0..MaxDefs}

\* The module's namespace after its import (utils.py 37): a later def of a
\* name replaces the earlier one.
Namespace(defs) ==
    [f \in {defs[i].function : i \in 1..Len(defs)} |->
        defs[CHOOSE i \in 1..Len(defs) :
                /\ defs[i].function = f
                /\ \A j \in (i + 1)..Len(defs) : defs[j].function # f]]

\* Tool.__init__, tool.py 29-33: the tool is named after its schema, and
\* its declaration is made from the schema alone.
Tool(d) ==
    [name |-> d.schema, function |-> d.function, platform |-> d.platform,
     openai_tool |-> [type |-> "function", name |-> d.schema]]

\* utils.py 40-45: every member of the namespace that carries `registered`,
\* in getmembers' order. No platform is consulted.
RECURSIVE Members(_, _)
Members(ns, k) ==
    IF k > Len(FunctionNames) THEN <<>>
    ELSE (IF FunctionNames[k] \in DOMAIN ns
          THEN <<Tool(ns[FunctionNames[k]])>> ELSE <<>>)
         \o Members(ns, k + 1)

discover_tools(defs) == Members(Namespace(defs), 1)

\* model.py 53: one declaration per tool of the list.
ToolSchemas(tools) == [i \in 1..Len(tools) |-> tools[i].openai_tool]

\* model.py 54: a dict comprehension, so the last tool of a name stays.
ToolsByName(tools) ==
    [n \in {tools[i].name : i \in 1..Len(tools)} |->
        tools[CHOOSE i \in 1..Len(tools) :
                 /\ tools[i].name = n
                 /\ \A j \in (i + 1)..Len(tools) : tools[j].name # n]]

ToolInit ==
    /\ definitions \in BoundedModules
    /\ current_platform \in Platforms
    /\ FreshRegistry
    /\ FreshBot
    /\ FreshApproval
    /\ FreshGate
    /\ FreshCleaning
    /\ history = Constructed(1)
    /\ mask = NoMask
    /\ nsys = 1
    /\ FreshSession
    /\ FreshStorage
    /\ FreshReplicas

\* discover_tools(), utils.py 15-56.
Discover ==
    /\ toolPc = "source"
    /\ registered_tools' = discover_tools(definitions)
    /\ toolPc' = "discovered"
    /\ UNCHANGED <<definitions, current_platform, tool_schemas,
                   tools_by_name, toolFrame>>

\* Computer(discover_tools()), model.py 52-54.
Construct ==
    /\ toolPc = "discovered"
    /\ tool_schemas' = ToolSchemas(registered_tools)
    /\ tools_by_name' = ToolsByName(registered_tools)
    /\ toolPc' = "constructed"
    /\ UNCHANGED <<definitions, current_platform, registered_tools,
                   toolFrame>>

ToolNext == Discover \/ Construct

ToolSpec == ToolInit /\ [][ToolNext]_vars

\* The definitions of schema n, and the schema names that have variants
\* for different platforms, one of them for the current platform.
Variants(n) == {i \in 1..Len(definitions) : definitions[i].schema = n}

PlatformVariants ==
    {n \in SchemaNames :
        /\ \E i \in Variants(n) : definitions[i].platform = current_platform
        /\ \E i \in Variants(n) :
              definitions[i].platform \in Platforms \ {current_platform}
        /\ \A i \in Variants(n) : definitions[i].platform \in Platforms}

Declarations(n) ==
    {i \in 1..Len(tool_schemas) : tool_schemas[i].name = n}

\* C28: once a Computer is constructed over the discovered tools, a name
\* with variants for different platforms has exactly one declaration in the
\* schema list, and the lookup of the name gives the variant of the current
\* platform.
C28_OneVariantPerPlatform ==
    toolPc = "constructed" =>
        \A n \in PlatformVariants :
            /\ Cardinality(Declarations(n)) = 1
            /\ n \in DOMAIN tools_by_name
            /\ tools_by_name[n].platform = current_platform

\* ------------------------------------- the chat adapter: one channel

\* What a channel's context does not touch beyond its own session.
botFrame ==
    <<innerVars, storageVars, replicaVars, toolVars, approval, gateVars, cleaning>>

\* The most messages a channel receives.
MaxMessages == 3

Ids(q) == [i \in 1..Len(q) |-> q[i].id]

\* Who writes on a channel: the operator (USER_DISCORD_ID), the bot itself
\* (the opening message of a task thread, line 695) and anyone else.
Authors == {"operator", "bot", "stranger"}

\* Mutant: protected mode is not looked at.
is_superuserByAuthor(author, pm) == author \in {"operator", "bot"}

\* Line 269.
is_superuser(author, pm) == author \in {"operator", "bot"} \/ ~pm

\* Mutant: a pending stop leaves the queue as it is.
LoopTopKeeps(q, s, pm) ==
    IF q = <<>>
    THEN [message_queue |-> <<>>, taken |-> <<>>,
          consumer |-> [at |-> "get", message |-> 0, author |-> NoneV,
                        is_superuser |-> FALSE]]
    ELSE [message_queue |-> Tail(q), taken |-> <<q[1].id>>,
          consumer |-> [at |-> IF q[1].ignored THEN "dead" ELSE "reply",
                        message |-> q[1].id,
                        author |-> q[1].author,
                        is_superuser |-> is_superuser(q[1].author, pm)]]

\* consume() from the top of its loop to its next suspension, lines
\* 252-287: a pending stop drains the queue; get() suspends on an empty
\* queue and otherwise returns its head at once; is_superuser is computed
\* from the message and the mode of the moment (269); a message of a
\* mention-only channel that does not mention the bot is to be logged
\* only, but line 275 calls clean_discord_message with a keyword it does
\* not have (utils.py 100): the TypeError is outside the try and ends the
\* task; any other message is answered with a placeholder (287).
LoopTop(q, s, pm) ==
    LET left == IF s THEN <<>> ELSE q
    IN  IF left = <<>>
        THEN [message_queue |-> <<>>, taken |-> Ids(q),
              consumer |-> [at |-> "get", message |-> 0, author |-> NoneV,
                            is_superuser |-> FALSE]]
        ELSE [message_queue |-> Tail(left), taken |-> <<left[1].id>>,
              consumer |-> [at |-> IF left[1].ignored THEN "dead"
                                   ELSE "reply",
                            message |-> left[1].id,
                            author |-> left[1].author,
                            is_superuser |->
                                is_superuser(left[1].author, pm)]]

\* Mutant: line 266 is missing.
StopAfterGetKept(s) == s

\* Line 266: what stop holds once get() has returned.
StopAfterGet(s) == FALSE

\* Line 368: consume() awaits the chain it starts.
AwaitCycleDetached == "save"

AwaitCycle == "cycle"

BotInit ==
    /\ FreshBot
    /\ FreshTools
    /\ FreshApproval
    /\ FreshGate
    /\ FreshCleaning
    /\ history = Constructed(1)
    /\ mask = NoMask
    /\ nsys = 1
    /\ FreshSession
    /\ FreshStorage
    /\ FreshReplicas

\* What the consumer's own steps leave alone.
modeVars == <<protected_mode, su_context>>

\* handle_message, route and ConversationContext.message (552-559,
\* 387-396), which run without suspending up to the put: a message without
\* content, or a stranger's private message, is not queued; the bot's own
\* messages reach the queue from a task thread only, with their content
\* excluded (695). A consumer suspended in get() is woken by the put and
\* takes the message (whatever stop was set to in between is reset at line
\* 266).
Arrive(author, queued, ignored) ==
    /\ arrivals < MaxMessages
    /\ author = "bot" => ~ignored
    /\ arrivals' = arrivals + 1
    /\ IF queued
       THEN LET msg == [id |-> arrivals + 1, ignored |-> ignored,
                        author |-> author]
            IN  /\ accepted' = Append(accepted, msg.id)
                /\ IF consumer.at = "get"
                   THEN LET go == LoopTop(<<msg>>, FALSE, protected_mode)
                        IN  /\ message_queue' = go.message_queue
                            /\ taken' = taken \o go.taken
                            /\ consumer' = go.consumer
                            /\ stop' = StopAfterGet(stop)
                            /\ aborted' = IF aborted = "idle" THEN "stale"
                                          ELSE "no"
                   ELSE /\ message_queue' = Append(message_queue, msg)
                        /\ UNCHANGED <<taken, consumer, stop, aborted>>
       ELSE UNCHANGED <<accepted, message_queue, taken, consumer, stop,
                        aborted>>
    /\ UNCHANGED <<started, returned, inflight, modeVars, botFrame>>

\* ConversationContext.abort, lines 381-385: the context's flag, then the
\* session's (model.py 90-92).
Abort ==
    /\ stop' = TRUE
    /\ abort_signal' = StopValue
    /\ stopped' = (stopped \/ pc \in {"call_model", "stream", "tools"})
    /\ aborted' = IF consumer.at = "get" THEN "idle" ELSE "busy"
    /\ UNCHANGED <<message_queue, consumer, arrivals, accepted, taken,
                   started, returned, inflight, modeVars>>
    /\ UNCHANGED <<history, mask, nsys, masked, snapshot, pc, depth, prompt,
                   tools_enabled, stream, response_content, full_tool_calls,
                   results, hookCalls, invocations, dispatched, sent,
                   stream0, hookAnswer, hist0, startDepth, startPrompt,
                   startAbort, failure>>
    /\ UNCHANGED <<storageVars, replicaVars, toolVars, approval, gateVars, cleaning>>

\* The consumer is back at the top of its loop.
Again ==
    LET go == LoopTop(message_queue, stop, protected_mode)
    IN  /\ message_queue' = go.message_queue
        /\ taken' = taken \o go.taken
        /\ consumer' = go.consumer
        /\ stop' = FALSE
        /\ aborted' = IF stop /\ message_queue # <<>> THEN "drained"
                      ELSE "no"

\* An exception leaves consume(): the task ends.
Dies == 
    /\ consumer' = [consumer EXCEPT !.at = "dead"]
    /\ UNCHANGED <<message_queue, taken, stop, aborted>>

\* message.reply (287) returns, and the chain is started (368), or raises:
\* the call is outside the try.
Replied(ok) ==
    /\ consumer.at = "reply"
    /\ IF ok
       THEN /\ started' = Append(started, consumer.message)
            /\ inflight' = inflight \cup {consumer.message}
            /\ consumer' = [consumer EXCEPT !.at = AwaitCycle]
            /\ UNCHANGED <<message_queue, taken, stop, aborted>>
       ELSE /\ Dies
            /\ UNCHANGED <<started, inflight>>
    /\ UNCHANGED <<arrivals, accepted, returned, modeVars, botFrame>>

\* The chain of message m ends, by return or by an exception (368, 374):
\* the consumer that awaits it goes on to the save or to the error notice.
ChainEnds(m, ok) ==
    /\ m \in inflight
    /\ inflight' = inflight \ {m}
    /\ returned' = Append(returned, m)
    /\ IF consumer.at = "cycle" /\ consumer.message = m
       THEN consumer' = [consumer EXCEPT
                            !.at = IF ok THEN "save" ELSE "send_error"]
       ELSE UNCHANGED consumer
    /\ UNCHANGED <<message_queue, stop, arrivals, accepted, taken, started,
                   aborted, modeVars, botFrame>>

\* ConversationStorage.save (369) returns or raises inside the try.
Saved(ok) ==
    /\ consumer.at = "save"
    /\ IF ok
       THEN Again
       ELSE /\ consumer' = [consumer EXCEPT !.at = "send_error"]
            /\ UNCHANGED <<message_queue, taken, stop, aborted>>
    /\ UNCHANGED <<arrivals, accepted, started, returned, inflight,
                   modeVars, botFrame>>

\* The error notice (379) is outside the try.
Notified(ok) ==
    /\ consumer.at = "send_error"
    /\ IF ok THEN Again ELSE Dies
    /\ UNCHANGED <<arrivals, accepted, started, returned, inflight,
                   modeVars, botFrame>>

BotNext ==
    \/ \E author \in Authors, queued \in BOOLEAN, ignored \in BOOLEAN :
           Arrive(author, queued, ignored)
    \/ Abort
    \/ \E ok \in BOOLEAN : Replied(ok)
    \/ \E m \in 1..MaxMessages, ok \in BOOLEAN : ChainEnds(m, ok)
    \/ \E ok \in BOOLEAN : Saved(ok)
    \/ \E ok \in BOOLEAN : Notified(ok)

BotSpec == BotInit /\ [][BotNext]_vars

IsPrefix(s, t) == Len(s) <= Len(t) /\ s = SubSeq(t, 1, Len(s))

\* C29: at most one cycle chain of the session is running; the messages
\* leave the queue in the order they were put on it, the queue holding
\* the rest; and a chain is started only when all earlier ones have ended.
C29_OneChainAtATime ==
    /\ Cardinality(inflight) <= 1
    /\ taken \o Ids(message_queue) = accepted
    /\ IsPrefix(started, SelectSeq(taken, LAMBDA m : m \in
                             {started[i] : i \in 1..Len(started)}))
    /\ IsPrefix(returned, started)
    /\ Len(started) <= Len(returned) + 1

\* The second chain runs after the first has ended, with a message waiting.
C29_Witness ==
    /\ Len(returned) >= 1
    /\ inflight # {}
    /\ message_queue # <<>>

\* ----------------------------------- the chat adapter: the approval hook

approvalFrame ==
    <<innerVars, storageVars, replicaVars, toolVars, botVars, gateVars, cleaning>>

\* The longest timeout a caller passes, and the latest reading of the
\* clock, in ticks since the call.
MaxTimeout == 2
MaxClock == 4

\* The Discord requests the hook awaits before the wait, in order (lines
\* 451, 465, 468, 469), and the one after it (485, 491).
Requests == <<"fetch_user", "send", "add_reaction_up", "add_reaction_down">>

After(at) ==
    CASE at = "fetch_user" -> "send"
      [] at = "send" -> "add_reaction_up"
      [] at = "add_reaction_up" -> "add_reaction_down"
      [] at = "add_reaction_down" -> "wait_for"

InFlight(a) == a.at \notin {"idle", "returned"}

\* The hook returns value v.
Returns(a, v) == [a EXCEPT !.at = "returned", !.result = v]

ApprovalInit ==
    /\ FreshApproval
    /\ FreshTools
    /\ FreshBot
    /\ FreshGate
    /\ FreshCleaning
    /\ history = Constructed(1)
    /\ mask = NoMask
    /\ nsys = 1
    /\ FreshSession
    /\ FreshStorage
    /\ FreshReplicas

\* approval_hook(message, timeout) is called: it suspends in fetch_user.
CallHook(t) ==
    /\ approval.at = "idle"
    /\ approval' = [IdleHook EXCEPT !.at = "fetch_user", !.timeout = t]
    /\ UNCHANGED approvalFrame

\* Time passes while the hook is suspended. Only client.wait_for is given
\* the timeout (lines 481-485): it does not outlast it.
Tick ==
    /\ InFlight(approval)
    /\ approval.elapsed < MaxClock
    /\ approval.at = "wait_for" => approval.waited < approval.timeout
    /\ approval' = [approval EXCEPT
                       !.elapsed = @ + 1,
                       !.waited = IF approval.at = "wait_for" THEN @ + 1
                                  ELSE @]
    /\ UNCHANGED approvalFrame

\* A request before the wait returns, returns no user (452-454), or raises
\* (discord.Forbidden or another Exception, 497-502).
RequestEnds(outcome) ==
    /\ \E i \in 1..Len(Requests) : approval.at = Requests[i]
    /\ outcome = "none" => approval.at = "fetch_user"
    /\ approval' =
          IF outcome = "ok"
          THEN [approval EXCEPT !.at = After(approval.at)]
          ELSE Returns([approval EXCEPT !.failed = TRUE], "False")
    /\ UNCHANGED approvalFrame

\* check(payload), lines 472-477.
Check(user, message, emoji) ==
    /\ user = "operator"
    /\ message = "approval_msg"
    /\ emoji \in {"THUMBS_UP", "THUMBS_DOWN"}

\* A reaction is added somewhere while the hook waits: wait_for returns
\* the first one that passes the check.
Reaction(user, message, emoji) ==
    /\ approval.at = "wait_for"
    /\ approval' =
          IF Check(user, message, emoji)
          THEN [approval EXCEPT !.at = "edit", !.reaction = emoji]
          ELSE approval
    /\ UNCHANGED approvalFrame

\* wait_for raises asyncio.TimeoutError when the timeout has passed (490),
\* or fails otherwise.
WaitEnds(outcome) ==
    /\ approval.at = "wait_for"
    /\ outcome = "TimeoutError" => approval.waited = approval.timeout
    /\ approval' =
          IF outcome = "TimeoutError"
          THEN [approval EXCEPT !.at = "edit", !.expired = TRUE]
          ELSE Returns([approval EXCEPT !.failed = TRUE], "False")
    /\ UNCHANGED approvalFrame

\* approval_msg.edit returns (485-488, 491-493) or raises (500-502).
EditEnds(ok) ==
    /\ approval.at = "edit"
    /\ approval' =
          IF ~ok THEN Returns([approval EXCEPT !.failed = TRUE], "False")
          ELSE IF approval.expired THEN Returns(approval, "False")
          ELSE Returns(approval,
                       IF approval.reaction = "THUMBS_UP" THEN "True"
                       ELSE "False")
    /\ UNCHANGED approvalFrame

ApprovalNext ==
    \/ \E t \in 1..MaxTimeout : CallHook(t)
    \/ Tick
    \/ \E outcome \in {"ok", "none", "raise"} : RequestEnds(outcome)
    \/ \E user \in {"operator", "stranger"},
          message \in {"approval_msg", "other_msg"},
          emoji \in {"THUMBS_UP", "THUMBS_DOWN", "EYES"} :
          Reaction(user, message, emoji)
    \/ \E outcome \in {"TimeoutError", "raise"} : WaitEnds(outcome)
    \/ \E ok \in BOOLEAN : EditEnds(ok)

ApprovalSpec == ApprovalInit /\ [][ApprovalNext]_vars

\* What the hook returns, and how long it waits for the reaction: true only
\* on the operator's thumbs-up before the expiry, false on a thumbs-down, on
\* expiry and on a failure; the wait lasts no longer than the timeout.
ApprovalVerdict ==
    /\ approval.result = "True" =>
          /\ approval.reaction = "THUMBS_UP"
          /\ ~approval.expired
          /\ ~approval.failed
    /\ (/\ approval.at = "returned"
        /\ \/ approval.reaction = "THUMBS_DOWN"
           \/ approval.expired
           \/ approval.failed) => approval.result = "False"
    /\ approval.at = "returned" => approval.result \in {"True", "False"}
    /\ approval.waited <= approval.timeout

\* C30: the approval hook returns true only on the operator's thumbs-up on
\* the approval message before the expiry, false on a thumbs-down, on
\* expiry and on a failure to send or wait, and a call of it is never
\* pending for longer than the timeout.
C30_ResolvesWithinTimeout ==
    /\ ApprovalVerdict
    /\ InFlight(approval) => approval.elapsed <= approval.timeout

\* ------------------------------------------------- the log under a chain

\* C32: every step of the cycle engine leaves the log it found as a prefix
\* of the log it leaves: messages are only appended, none is changed or
\* removed.
C32_AppendOnly == [][IsPrefix(history, history')]_vars

\* A chain that has appended a prompt, an assistant message with tool
\* calls, their results and a closing assistant message.
C32_Witness ==
    /\ pc = "returned"
    /\ failure = NoneV
    /\ Len(history) >= Len(hist0) + 4
    /\ IsPrefix(hist0, history)
    /\ history[Len(hist0) + 1].role = "user"
    /\ \E k \in 1..Len(history) : history[k].role = "tool"

\* ------------------------------------------------- the hook's signals

\* The positions of the chain's hook calls that carry cycle_done, and
\* those that carry stream_done.
CycleDoneCalls == {k \in 1..Len(hookCalls) : hookCalls[k].cycle_done}
StreamDoneCalls == {k \in 1..Len(hookCalls) : hookCalls[k].stream_done}

\* C33: a chain's hook calls carry cycle_done exactly once, on the last
\* call of the chain; every turn of the chain gets a single stream_done
\* call, after all the turn's stream_done = false calls, so that no delta
\* call is pending once a turn is over.
C33_OneCycleDoneLast ==
    pc # "idle" =>
        /\ Ended => CycleDoneCalls = {Len(hookCalls)}
        /\ ~Ended => CycleDoneCalls = {}
        /\ Cardinality(StreamDoneCalls)
              = depth - startDepth + (IF Ended THEN 1 ELSE 0)
        /\ (pc \in {"entry", "call_model", "returned"} /\ hookCalls # <<>>)
              => Last(hookCalls).stream_done

\* A chain of two turns that both streamed text.
C33_Witness ==
    /\ pc = "returned"
    /\ \E i, j, k \in 1..Len(hookCalls) :
          /\ i < j /\ j < k /\ k < Len(hookCalls)
          /\ ~hookCalls[i].stream_done
          /\ hookCalls[j].stream_done /\ ~hookCalls[j].cycle_done
          /\ ~hookCalls[k].stream_done
    /\ Last(hookCalls).cycle_done /\ ~Last(hookCalls).error

\* ------------------------------------ a stream the hook stops half-way

\* Answers in which a tool call is complete before text arrives: a call,
\* then a text delta in a chunk that opens a second call, then more text;
\* a plain answer in two deltas; and calls whose id or name comes late: a
\* call that is named at once and gets an id only in its second fragment,
\* and one that has its id at once and gets another id and a name later.
StoppableStreams ==
    { <<Chunk(<<>>, <<Frag(0, "id0", "shell", <<"{", "}">>)>>),
        Chunk(<<"a">>, <<Frag(1, "id1", "shell", <<"{", "}">>)>>),
        Chunk(<<"b">>, <<>>)>>,
      <<Chunk(<<"a">>, <<>>), Chunk(<<"b">>, <<>>)>>,
      <<Chunk(<<>>, <<Frag(0, NoneV, "shell", <<"{">>)>>),
        Chunk(<<>>, <<Frag(0, "id0", NoneV, <<"}">>)>>)>>,
      <<Chunk(<<>>, <<Frag(1, "id1", NoneV, <<"{">>)>>),
        Chunk(<<>>, <<Frag(1, "id0", "shell", <<"}">>)>>)>> }

\* Chains started at depth 0 whose model calls answer with these streams.
StopNext ==
    \/ \E p \in Prompts, te \in BOOLEAN : Start(p, 0, te)
    \/ CycleEntry
    \/ \E s \in StoppableStreams : ModelReturns(s)
    \/ \E r \in HookReturns : StreamChunk(r)
    \/ StreamEnd
    \/ \E ok \in BOOLEAN : ToolExec(ok)
    \/ ToolsDone

StopSpec == Init /\ [][StopNext]_vars

\* The hook answers False to a text delta in this step.
HookStops == DeltaStep /\ hookAnswer' = "False"

\* C34: when the hook returns False on a text delta, the chunks from there
\* on stay unread, and the turn goes on as after a whole stream: the
\* assistant message with the text so far and the calls collected so far is
\* appended; without calls the chain ends with a stream_done, cycle_done
\* call; with calls and tools enabled each collected call is dispatched, in
\* order, before the stream_done call and the recursion; with calls and
\* tools disabled the stream_done call and the recursion follow at once.
C34_StopEndsStreamNotTurn ==
    [][/\ HookStops =>
            LET rc == response_content \o Head(stream).content
                ftc == full_tool_calls
                n == Len(history)
            IN /\ stream' = stream
               /\ Len(history') > n
               /\ SubSeq(history', 1, n) = history
               /\ history'[n + 1] = AssistantMessage(rc, ftc)
               /\ full_tool_calls' = ftc
               /\ IF ftc = <<>>
                  THEN /\ pc' = "returned"
                       /\ Len(history') = n + 1
                       /\ Last(hookCalls') = HookCall(<<>>, rc, TRUE, TRUE, FALSE)
                  ELSE IF tools_enabled
                  THEN /\ pc' = "tools"
                       /\ Len(history') = n + 1
                       /\ results' = <<>>
                       /\ Len(hookCalls') = Len(hookCalls) + 1
                  ELSE /\ pc' = "entry"
                       /\ depth' = depth + 1
                       /\ Last(hookCalls') = HookCall(<<>>, rc, TRUE, FALSE, FALSE)
       /\ (hookAnswer = "False" /\ pc = "tools" /\ pc' # "tools") =>
            /\ Len(DispatchedAt(depth)) = Len(full_tool_calls)
            /\ \A j \in 1..Len(full_tool_calls) :
                  DispatchedAt(depth)[j].call = full_tool_calls[j]
            /\ Last(hookCalls')
                  = HookCall(<<>>, response_content, TRUE, FALSE, FALSE)
            /\ pc' = "entry"
            /\ depth' = depth + 1]_vars

\* The stopped turn has run its one collected call and recursed, two chunks
\* of its stream unread.
C34_Witness ==
    /\ hookAnswer = "False"
    /\ pc = "entry"
    /\ depth = 1
    /\ tools_enabled
    /\ Len(stream) = 2
    /\ Len(dispatched) = 1
    /\ dispatched[1].executed
    /\ Last(history).role = "tool"

\* ------------------------------------------ the identity of a tool call

\* The fragments process_stream has read of the current stream.
FragsRead == AllFrags(SubSeq(stream0, 1, Len(stream0) - Len(stream)))

\* The first fragment read for position i.
FirstFrag(frags, i) ==
    frags[CHOOSE k \in 1..Len(frags) :
             /\ frags[k].index = i
             /\ \A j \in 1..(k - 1) : frags[j].index # i]

\* C39: a collected call has the id and the name of the first fragment read
\* for its position, null where that fragment has none, whatever later
\* fragments carry; and the tool message appended for a call has the call's
\* id as its tool_call_id, none for a null id.
C39_FirstFragmentNames ==
    [][/\ pc' \in {"stream", "tools"} =>
            \A k \in 1..Len(full_tool_calls') :
                LET call == full_tool_calls'[k]
                    first == FirstFrag(FragsRead', call.index)
                IN /\ \E j \in 1..Len(FragsRead') :
                         FragsRead'[j].index = call.index
                   /\ call.id = first.id
                   /\ call.name = first.name
       /\ (pc = "tools" /\ pc' # "tools") =>
            /\ Len(history') = Len(history) + Len(full_tool_calls)
            /\ \A k \in 1..Len(full_tool_calls) :
                  /\ history'[Len(history) + k].role = "tool"
                  /\ history'[Len(history) + k].tool_call_id
                        = full_tool_calls[k].id]_vars

\* A call whose id came late was executed and answered without an id.
C39_Witness ==
    /\ pc = "entry"
    /\ depth = 1
    /\ Len(full_tool_calls) = 1
    /\ full_tool_calls[1].id = NoneV
    /\ full_tool_calls[1].name = "shell"
    /\ \E j \in 1..Len(FragsRead) : FragsRead[j].id = "id0"
    /\ Last(history).role = "tool"
    /\ Last(history).tool_call_id = NoneV
    /\ Last(history).content = <<"result", "shell">>

\* ------------------------------------------- the approval-gated tools

gateFrame ==
    <<innerVars, storageVars, replicaVars, toolVars, botVars, approval,
      cleaning>>

\* The most calls of gated tools in a behaviour.
MaxGated == 2

\* The tool functions that take an approval hook: sudo.py 28 and 80,
\* email.py 82.
GatedTools == {"execute_sudo (linux)", "execute_sudo (windows)", "send_email"}

\* What the functions return without going on: the hook is missing (sudo.py
\* 44, 96; email.py 99) or did not approve (sudo.py 42, 94; email.py 96).
Denial(tool, available) ==
    CASE tool = "execute_sudo (linux)" ->
           IF available
           THEN "Permission denied: User did not approve sudo command execution."
           ELSE "Permission denied: Approval mechanism not available. Cannot execute sudo commands without user confirmation."
      [] tool = "execute_sudo (windows)" ->
           IF available
           THEN "Permission denied: User did not approve elevated command execution."
           ELSE "Permission denied: Approval mechanism not available. Cannot execute elevated commands without user confirmation."
      [] tool = "send_email" ->
           IF available
           THEN "User did not approve the email. Work with the user to refine."
           ELSE "Approval mechanism not available. Cannot send email without user confirmation."

Denials == {Denial(t, a) : t \in GatedTools, a \in BOOLEAN}

\* Mutant: only an answer that is False denies.
ApprovesUnlessFalse(answer) == answer # "False"

\* `if not approved` (sudo.py 41, 93; email.py 95) lets a truthy answer on.
Approves(answer) == answer \notin {"False", "None"}

Pending == gated # <<>> /\ gated[Len(gated)].result = "-"

GateInit ==
    /\ FreshGate
    /\ FreshCleaning
    /\ FreshTools
    /\ FreshBot
    /\ FreshApproval
    /\ history = Constructed(1)
    /\ mask = NoMask
    /\ nsys = 1
    /\ FreshSession
    /\ FreshStorage
    /\ FreshReplicas

\* Tool.execute (tool.py 35-50) calls the function with the session's
\* approval hook, which may be None: the function returns its denial at
\* once, or suspends in the hook (sudo.py 31-39, email.py 84-93).
ExecuteGated(tool, available) ==
    /\ Len(gated) < MaxGated
    /\ ~Pending
    /\ gated' = Append(gated,
          [tool |-> tool, approval_hook |-> available, answer |-> "-",
           result |-> IF available THEN "-" ELSE Denial(tool, FALSE)])
    /\ UNCHANGED <<effects, gateFrame>>

\* The hook returns: a denial, or the function goes on to its side effect
\* (subprocess.Popen, sudo.py 57 and 109; send_smtp, email.py 101), which
\* succeeds or fails; the Linux variant first gives up when the sudo
\* password is not set (sudo.py 47-49).
HookAnswers(answer, outcome) ==
    /\ Pending
    /\ LET n == Len(gated)
           tool == gated[n].tool
           acts == Approves(answer) /\ outcome # "unset"
       IN /\ outcome = "unset" =>
                Approves(answer) /\ tool = "execute_sudo (linux)"
          /\ ~Approves(answer) => outcome = "ok"
          /\ effects' = IF acts THEN Append(effects, n) ELSE effects
          /\ gated' = [gated EXCEPT ![n] = [@ EXCEPT
                !.answer = answer,
                !.result = IF ~Approves(answer) THEN Denial(tool, TRUE)
                           ELSE IF outcome = "unset"
                           THEN "Error: SUDO_PASSWORD environment variable not set. Cannot execute sudo commands."
                           ELSE IF outcome = "ok" THEN "done"
                           ELSE "failed"]]
    /\ UNCHANGED gateFrame

\* The hook raises: the exception leaves the function (and becomes the
\* tool's error result, model.py 311-313).
HookRaises ==
    /\ Pending
    /\ gated' = [gated EXCEPT ![Len(gated)] =
                    [@ EXCEPT !.answer = "raise",
                              !.result = "Error executing tool: str(e)"]]
    /\ UNCHANGED <<effects, gateFrame>>

GateNext ==
    \/ \E tool \in GatedTools, available \in BOOLEAN :
          ExecuteGated(tool, available)
    \/ \E answer \in HookReturns, outcome \in {"ok", "failed", "unset"} :
          HookAnswers(answer, outcome)
    \/ HookRaises

GateSpec == GateInit /\ [][GateNext]_vars

\* C31: a gated tool performs its side effect, once, only in a call whose
\* approval hook returned True; a call without a hook, or whose hook
\* returned False, returns a denial string and performs no side effect.
C31_NoEffectWithoutApproval ==
    /\ \A k \in 1..Len(effects) :
          /\ effects[k] \in 1..Len(gated)
          /\ gated[effects[k]].approval_hook
          /\ gated[effects[k]].answer = "True"
          /\ \A j \in 1..Len(effects) : effects[j] = effects[k] => j = k
    /\ \A n \in 1..Len(gated) :
          (~gated[n].approval_hook \/ gated[n].answer = "False") =>
              /\ gated[n].result \in Denials
              /\ \A k \in 1..Len(effects) : effects[k] # n

\* A denied call, then an approved one that performed its side effect.
C31_Witness ==
    /\ Len(gated) = 2
    /\ gated[1].answer = "False"
    /\ gated[2].answer = "True"
    /\ effects = <<2>>

\* ------------------------------------- the clear command under a chain

\* A channel's session: chains started at depth 0 by the consumer, and the
\* clear command (bot.py 575-580), which runs whenever the chain is
\* suspended.
ClearNext ==
    \/ \E p \in Prompts, te \in BOOLEAN : Start(p, 0, te)
    \/ Engine
    \/ ConvClear

ClearSpec == Init /\ [][ClearNext]_vars

\* C35: every tool message of the log comes after an assistant message
\* that lists a tool call with the tool message's id.
C35_ToolMessageHasCall ==
    \A k \in 1..Len(history) :
        history[k].role = "tool" =>
            \E j \in 1..(k - 1) :
                /\ history[j].role = "assistant"
                /\ \E c \in 1..Len(history[j].tool_calls) :
                      history[j].tool_calls[c].id = history[k].tool_call_id

\* ------------------------------ the chat adapter: a channel and its session

\* What a context and its session do not touch.
outsideChannel == <<storageVars, replicaVars, toolVars, approval, gateVars, cleaning>>

\* The system messages of lines 357-366.
StrangerNote == <<"Now speaking to a stranger. Tools are disabled.">>
OperatorNote == <<"Now speaking to the user. Full tool access restored.">>

\* What the model answers on a channel.
ChannelStreams ==
    { <<Chunk(<<"a">>, <<>>), Chunk(<<"b">>, <<>>)>>,
      <<Chunk(<<"a">>, <<Frag(0, "id0", "shell", <<"{", "}">>)>>)>> }

\* consume(), lines 346-368: message.channel.typing() is entered, the
\* switch between the operator and anyone else is noted in the log, and
\* cycle is called at depth 0 with the content of the message (None for a
\* message whose content is excluded, line 695) and with tools enabled
\* for a superuser only; or entering typing() raises inside the try.
Called(ok) ==
    /\ consumer.at = AwaitCycle
    /\ consumer.message \in inflight
    /\ pc = "idle"
    /\ IF ok
       THEN LET su == consumer.is_superuser
                h == IF su_context # su
                     THEN add_message(history, "system",
                              IF su THEN OperatorNote ELSE StrangerNote,
                              <<>>, NoneV)
                     ELSE history
                p == IF consumer.author = "bot" THEN <<>> ELSE <<"hi">>
            IN  /\ su_context' = su
                /\ history' = h
                /\ MaskFollows
                /\ pc' = "entry"
                /\ prompt' = p
                /\ depth' = 0
                /\ tools_enabled' = su
                /\ stream' = <<>>
                /\ response_content' = <<>>
                /\ full_tool_calls' = <<>>
                /\ results' = <<>>
                /\ hookCalls' = <<>>
                /\ invocations' = 0
                /\ dispatched' = <<>>
                /\ hist0' = h
                /\ startDepth' = 0
                /\ startPrompt' = p
                /\ startAbort' = abort_signal
                /\ stopped' = FALSE
                /\ failure' = NoneV
                /\ UNCHANGED <<consumer, inflight, returned>>
       ELSE /\ consumer' = [consumer EXCEPT !.at = "send_error"]
            /\ inflight' = inflight \ {consumer.message}
            /\ returned' = Append(returned, consumer.message)
            /\ UNCHANGED <<su_context, history, mask, pc, prompt, depth,
                           tools_enabled, stream, response_content,
                           full_tool_calls, results, hookCalls, invocations,
                           dispatched, hist0, startDepth, startPrompt,
                           startAbort, stopped, failure>>
    /\ UNCHANGED <<nsys, masked, snapshot, abort_signal, sent, stream0,
                   hookAnswer>>
    /\ UNCHANGED <<message_queue, stop, arrivals, accepted, taken, started,
                   protected_mode, aborted, outsideChannel>>

\* The hook consume() passes to cycle, on a text delta (lines 337-344):
\* False when the edit of the placeholder fails, else `not self.stop`.
HookReturnsOnChannel(s) == IF s THEN {"False"} ELSE {"True", "False"}

\* Line 368 returns or raises: the chain is over and the session free.
Returned ==
    /\ Ended
    /\ consumer.at = AwaitCycle
    /\ consumer.message \in inflight
    /\ pc' = "idle"
    /\ consumer' = [consumer EXCEPT
                       !.at = IF pc = "returned" THEN "save"
                              ELSE "send_error"]
    /\ inflight' = inflight \ {consumer.message}
    /\ returned' = Append(returned, consumer.message)
    /\ UNCHANGED <<history, mask, nsys, masked, snapshot, abort_signal,
                   depth, prompt, tools_enabled, stream, response_content,
                   full_tool_calls, results, hookCalls, invocations,
                   dispatched, sent, stream0, hookAnswer, hist0, startDepth,
                   startPrompt, startAbort, stopped, failure>>
    /\ UNCHANGED <<message_queue, stop, arrivals, accepted, taken, started,
                   protected_mode, su_context, aborted, outsideChannel>>

\* The toggle_protected command, run by the operator (lines 614-627).
ToggleProtected ==
    /\ history' = SelectSeq(history, LAMBDA msg : msg.role = "system")
    /\ snapshot' = NoSnapshot
    /\ protected_mode' = ~protected_mode
    /\ su_context' = TRUE
    /\ UNCHANGED <<mask, nsys, masked, abort_signal, pc, depth, prompt,
                   tools_enabled, stream, response_content, full_tool_calls,
                   results, hookCalls, invocations, dispatched, sent,
                   stream0, hookAnswer, hist0, startDepth, startPrompt,
                   startAbort, stopped, failure>>
    /\ UNCHANGED <<message_queue, stop, consumer, arrivals, accepted, taken,
                   started, returned, inflight, aborted, outsideChannel>>

\* The most messages of a channel whose chains are followed step by step.
MaxTurns == 2

\* An ordinary channel (not mention-only, not a task thread) while the
\* requests to Discord succeed: its messages, the commands, the consumer
\* and the chain it awaits.
ChannelNext ==
    \/ \E author \in Authors \ {"bot"} :
           arrivals < MaxTurns /\ Arrive(author, TRUE, FALSE)
    \/ Abort
    \/ Replied(TRUE)
    \/ Called(TRUE)
    \/ CycleEntry
    \/ \E s \in ChannelStreams : ModelReturns(s)
    \/ \E r \in HookReturnsOnChannel(stop) : StreamChunk(r)
    \/ StreamEnd
    \/ ToolExec(TRUE)
    \/ ToolsDone
    \/ Returned
    \/ Saved(TRUE)

ChannelSpec == BotInit /\ [][ChannelNext]_vars

\* The same channel with the operator switching protected mode.
ProtectedNext == ChannelNext \/ ToggleProtected

ProtectedSpec == BotInit /\ [][ProtectedNext]_vars

\* ------------------------------------------ the chat adapter: abort()

\* The consumer passes the top of its loop: it lets go of the message it
\* was processing.
BackAtTop ==
    /\ consumer.at \in {"save", "send_error"}
    /\ consumer'.message # consumer.message

\* C37: when the consumer comes back to the top of its loop after an
\* abort() that was called while it was processing a message, it takes
\* every message off the queue, whenever it was put there, starts a chain
\* for none of them, resets stop and waits for the next message; a chain
\* is only ever started for the message the consumer holds.
C37_AbortDiscardsQueue ==
    [][/\ (BackAtTop /\ aborted = "busy") =>
            /\ stop
            /\ message_queue' = <<>>
            /\ taken' = taken \o Ids(message_queue)
            /\ started' = started
            /\ consumer'.at = "get"
            /\ consumer'.message = 0
            /\ ~stop'
       /\ started' # started =>
            /\ consumer.at = "reply"
            /\ started' = Append(started, consumer.message)]_vars

\* Two queued messages have been discarded: only the first message of
\* the channel ever had a chain.
C37_Witness ==
    /\ aborted = "drained"
    /\ consumer.at = "get"
    /\ ~stop
    /\ message_queue = <<>>
    /\ taken = <<1, 2, 3>>
    /\ started = <<1>>

\* The chain of the message the consumer holds has passed the head of its
\* first step.
Underway == pc # "idle" /\ ~(pc = "entry" /\ depth = 0)

\* C36: a message taken after an abort() that found the consumer waiting
\* on an empty queue is processed as if there had been no abort: stop is
\* reset, so the hook does not ask for the stream to end; the chain starts
\* at depth 0, the model is called, the session's flag is cleared at the
\* head of the first step and no step reports an abort.
C36_StaleAbortDoesNotBlock ==
    aborted = "stale" =>
        /\ ~stop
        /\ consumer.at \in {"reply", "cycle", "save"}
        /\ consumer.at = "save" => consumer.message \in
               {returned[i] : i \in 1..Len(returned)}
        /\ pc # "idle" =>
              /\ startDepth = 0
              /\ \A k \in 1..Len(hookCalls) : hookCalls[k].content # AbortedMsg
        /\ Underway =>
              /\ ~abort_signal
              /\ invocations >= 1

\* After a first message, an abort while idle, and a second message: the
\* chain of the second has called the model twice and run a tool.
C36_Witness ==
    /\ aborted = "stale"
    /\ consumer.message = 2
    /\ startAbort
    /\ pc = "returned"
    /\ invocations = 2
    /\ dispatched # <<>>
    /\ Last(hookCalls).cycle_done
    /\ ~Last(hookCalls).error

\* C38: a chain that consume() starts while protected mode is on, for a
\* message written by someone other than the operator and the bot, has
\* tools disabled; and a tool executor is only ever invoked in a chain
\* that has tools enabled.
C38_ProtectedStrangerNoTools ==
    [][/\ (/\ pc = "idle" /\ pc' = "entry"
           /\ protected_mode
           /\ consumer.author = "stranger") => ~tools_enabled'
       /\ Len(dispatched') > Len(dispatched) =>
              (tools_enabled /\ tools_enabled')]_vars

\* ------------------------------------------- utils.clean_discord_message

\* A string is the sequence of its characters.

\* Python's index i of a slice over a sequence of length n.
Clip(i, n) ==
    IF i < 0 THEN (IF i + n < 0 THEN 0 ELSE i + n)
    ELSE IF i > n THEN n ELSE i

\* Python's s[a:b].
Slice(s, a, b) ==
    LET lo == Clip(a, Len(s))
        hi == Clip(b, Len(s))
    IN  IF lo < hi THEN SubSeq(s, lo + 1, hi) ELSE <<>>

\* Python's s.find(c) for a character c.
Find(s, c) ==
    IF \E i \in 1..Len(s) : s[i] = c
    THEN (CHOOSE i \in 1..Len(s) :
              s[i] = c /\ \A j \in 1..(i - 1) : s[j] # c) - 1
    ELSE -1

StartsWith(s, p) == IsPrefix(p, s)

EndsWith(s, p) ==
    Len(p) <= Len(s) /\ SubSeq(s, Len(s) - Len(p) + 1, Len(s)) = p

\* The backtick, written by its name.
Backtick == "backtick"
Fence == <<Backtick, Backtick, Backtick>>
Dots == <<".", ".", ".">>
Bold == <<"*", "*">>
Newline == "\n"

\* clean_discord_message, lines 118-134: the branches for content in a
\* code block; <<FALSE, ...>> when none of them returns.
CleanCodeBlock(content, max_length) ==
    LET first_newline == Find(content, Newline)
        header == Slice(content, 3, first_newline)
        available == max_length - Len(header) - 7
        fallback == max_length - 9
    IN  IF first_newline > 3 /\ available > 20
        THEN <<TRUE,
               Fence \o header \o <<Newline>>
                 \o Slice(Slice(content, first_newline + 1, -3),
                          0, available - 3)
                 \o Dots \o <<Newline>> \o Fence>>
        ELSE IF fallback > 20
        THEN <<TRUE,
               Fence \o Slice(Slice(content, 3, -3), 0, fallback)
                 \o Dots \o Fence>>
        ELSE <<FALSE, <<>>>>

\* clean_discord_message, lines 136-144: the branch for content that
\* starts with a bold header line.
CleanBoldHeader(content, max_length) ==
    LET first_newline == Find(content, Newline)
        header == Slice(content, 0, first_newline + 1)
        available == max_length - Len(header) - 3
    IN  IF Len(header) < 100 /\ available > 20
        THEN <<TRUE,
               header
                 \o Slice(content, first_newline + 1,
                          first_newline + 1 + available)
                 \o Dots>>
        ELSE <<FALSE, <<>>>>

\* clean_discord_message, lines 100-147.
clean_discord_message(content, max_length) ==
    IF content = <<>> \/ Len(content) <= max_length
    THEN content
    ELSE LET code == IF StartsWith(content, Fence) /\ EndsWith(content, Fence)
                     THEN CleanCodeBlock(content, max_length)
                     ELSE <<FALSE, <<>>>>
             bold == IF StartsWith(content, Bold)
                        /\ Find(content, Newline) # -1
                     THEN CleanBoldHeader(content, max_length)
                     ELSE <<FALSE, <<>>>>
         IN  IF code[1] THEN code[2]
             ELSE IF bold[1] THEN bold[2]
             ELSE Slice(content, 0, max_length - 3) \o Dots

\* Discord's limit, the default of max_length and the only value the
\* callers use (line 100).
DiscordLimit == 2000

\* The small limits tried, from the length of the ellipsis up, the longest
\* language or bold header, and by how much a content is longer than the
\* limit at most.
MinLimit == 3
MaxLimit == 40
MaxHeader == 2
MaxExcess == 3

Limits == (MinLimit..MaxLimit) \cup {DiscordLimit}

Rep(c, k) == [i \in 1..k |-> c]

\* The contents of length len tried: plain text; a code block with a
\* language line; a code block without one (no newline at all, or the
\* newline right after the fence); text under a bold header line.
ContentsOf(len) ==
    {Rep("x", len)}
    \cup {Fence \o Rep("y", h) \o <<Newline>> \o Rep("x", len - h - 7) \o Fence :
            h \in {h \in 1..MaxHeader : len >= h + 7}}
    \cup {Fence \o Rep("x", len - 6) \o Fence : k \in {k \in {0} : len >= 6}}
    \cup {Fence \o <<Newline>> \o Rep("x", len - 7) \o Fence :
            k \in {k \in {0} : len >= 7}}
    \cup {Bold \o Rep("y", h) \o <<Newline>> \o Rep("x", len - h - 3) :
            h \in {h \in 1..MaxHeader : len >= h + 3}}

\* The calls tried: each limit with contents from one character shorter
\* than it to MaxExcess characters longer.
CleanInit ==
    /\ \E n \in Limits :
       \E len \in {l \in (n - 1)..(n + MaxExcess) : l >= 0} :
       \E c \in ContentsOf(len) :
          cleaning = [content |-> c, max_length |-> n, called |-> FALSE,
                      result |-> <<>>]
    /\ FreshTools
    /\ FreshBot
    /\ FreshApproval
    /\ FreshGate
    /\ history = Constructed(1)
    /\ mask = NoMask
    /\ nsys = 1
    /\ FreshSession
    /\ FreshStorage
    /\ FreshReplicas

\* The call returns.
Clean ==
    /\ ~cleaning.called
    /\ cleaning' = [cleaning EXCEPT
                       !.called = TRUE,
                       !.result = clean_discord_message(cleaning.content,
                                                        cleaning.max_length)]
    /\ UNCHANGED <<innerVars, storageVars, replicaVars, toolVars, botVars,
                   approval, gateVars>>

CleanSpec == CleanInit /\ [][Clean]_vars

\* C40: what clean_discord_message returns is at most max_length
\* characters long.
C40_FitsTheLimit ==
    cleaning.called => Len(cleaning.result) <= cleaning.max_length

====
